------------------------------ MODULE Spec2Model ------------------------------
(***************************************************************************)
(* A model of scry (src/scry/cli.py): structural discovery of a source     *)
(* tree and the layered secret scanner.                                    *)
(*                                                                         *)
(* Python strings are modelled as tuples of one-character strings, so that *)
(* strip, split, slicing, regular-expression search and the entropy of a   *)
(* token are computed character by character, as the code computes them.   *)
(***************************************************************************)
EXTENDS Integers, Sequences, FiniteSets, TLC

(***************************************************************************)
(* Characters and the str methods the code uses                            *)
(***************************************************************************)

LOWER == <<"a", "b", "c", "d", "e", "f", "g", "h", "i", "j", "k", "l", "m", "n", "o", "p", "q", "r", "s", "t", "u", "v", "w", "x", "y", "z">>
UPPER == <<"A", "B", "C", "D", "E", "F", "G", "H", "I", "J", "K", "L", "M", "N", "O", "P", "Q", "R", "S", "T", "U", "V", "W", "X", "Y", "Z">>
DIGITS == <<"0", "1", "2", "3", "4", "5", "6", "7", "8", "9">>

Range(s) == {s[i] : i \in DOMAIN s}

Lowers == Range(LOWER)
Uppers == Range(UPPER)
Digits == Range(DIGITS)
Alnum == Lowers \cup Uppers \cup Digits

\* str.isspace for the characters the model uses ("\v" has no TLA+ literal)
Whitespace == {" ", "\t", "\n", "\r", "\f"}

\* the line boundaries of str.splitlines the model uses
LineBreaks == {"\n"}

\* printable ASCII in code-point order: " " (32) to "_" (95), "a" (97) to "~" (126);
\* the backquote (96) has no TLA+ string literal and is left out of the model
ASCII_LO == <<" ", "!", "\"", "#", "$", "%", "&", "'", "(", ")", "*", "+", ",", "-", ".", "/", "0", "1", "2", "3", "4", "5", "6", "7", "8", "9", ":", ";", "<", "=", ">", "?", "@", "A", "B", "C", "D", "E", "F", "G", "H", "I", "J", "K", "L", "M", "N", "O", "P", "Q", "R", "S", "T", "U", "V", "W", "X", "Y", "Z", "[", "\\", "]", "^", "_">>
ASCII_HI == <<"a", "b", "c", "d", "e", "f", "g", "h", "i", "j", "k", "l", "m", "n", "o", "p", "q", "r", "s", "t", "u", "v", "w", "x", "y", "z", "{", "|", "}", "~">>

\* ord(c): the code point that str comparison (sorted) compares by
OrdTable ==
    [c \in Range(ASCII_LO) \cup Range(ASCII_HI) |->
        IF c \in Range(ASCII_LO)
        THEN 31 + CHOOSE i \in DOMAIN ASCII_LO : ASCII_LO[i] = c
        ELSE 96 + CHOOSE i \in DOMAIN ASCII_HI : ASCII_HI[i] = c]
Ord(c) == IF c \in DOMAIN OrdTable THEN OrdTable[c] ELSE IF c = "\t" THEN 9 ELSE 10

LowerTable == [c \in Uppers |-> LOWER[CHOOSE i \in DOMAIN UPPER : UPPER[i] = c]]
UpperTable == [c \in Lowers |-> UPPER[CHOOSE i \in DOMAIN LOWER : LOWER[i] = c]]
\* the other case of a letter; any other character is its own
SwapCase(c) == IF c \in Uppers THEN LowerTable[c] ELSE IF c \in Lowers THEN UpperTable[c] ELSE c

isdigit(c) == c \in Digits
isalpha(c) == c \in Lowers \cup Uppers

\* s[:n]
Take(s, n) == SubSeq(s, 1, IF n < Len(s) THEN n ELSE Len(s))

Min(S) == CHOOSE x \in S : \A y \in S : x <= y
Max(S) == CHOOSE x \in S : \A y \in S : y <= x

\* str.strip(chars): from the first to the last character that is not in chars
StripChars(s, chars) ==
    LET keep == {i \in DOMAIN s : s[i] \notin chars}
    IN  IF keep = {} THEN <<>> ELSE SubSeq(s, Min(keep), Max(keep))

\* str.strip()
strip(s) == StripChars(s, Whitespace)

\* str.startswith(prefix)
startswith(s, prefix) ==
    Len(s) >= Len(prefix) /\ SubSeq(s, 1, Len(prefix)) = prefix

\* c in s
Contains(s, c) == \E i \in DOMAIN s : s[i] = c

\* the pieces of s between separators (characters of seps), empty ones included
Pieces(s, seps) ==
    LET cuts == {0, Len(s) + 1} \cup {i \in DOMAIN s : s[i] \in seps}
        \* the k-th cut, counted from 1
        cut(k) == CHOOSE c \in cuts : Cardinality({d \in cuts : d < c}) = k - 1
    IN  [k \in 1..(Cardinality(cuts) - 1) |-> SubSeq(s, cut(k) + 1, cut(k + 1) - 1)]

\* the entries of seq that are not empty, in order
NonEmpty(seq) == SelectSeq(seq, LAMBDA x : x # <<>>)

\* str.split(): the whitespace-delimited tokens
split(s) == NonEmpty(Pieces(s, Whitespace))

\* str.splitlines(): a trailing line break ends the last line, it opens no new one
splitlines(s) ==
    IF s = <<>> THEN <<>>
    ELSE IF s[Len(s)] \in LineBreaks
         THEN Pieces(SubSeq(s, 1, Len(s) - 1), LineBreaks)
         ELSE Pieces(s, LineBreaks)

\* sep.join(parts)
RECURSIVE Join(_, _)
Join(parts, sep) ==
    IF parts = <<>> THEN <<>>
    ELSE IF Len(parts) = 1 THEN parts[1]
         ELSE parts[1] \o sep \o Join(Tail(parts), sep)

\* c repeated n times
Times(c, n) == [i \in 1..n |-> c]

\* the first n characters of w repeated over and over
Cycle(w, n) == [i \in 1..n |-> w[((i - 1) % Len(w)) + 1]]

(***************************************************************************)
(* Regular expressions (re.compile, Pattern.search, Pattern.match)         *)
(*                                                                         *)
(* An expression is a tree; Ends(n, s, P, ic) is the set of positions at   *)
(* which a match of n that starts at a position of P can end, position p   *)
(* standing before s[p].  ic is the (?i) flag.                             *)
(***************************************************************************)

\* [...] and [^...]
C(chars) == [t |-> "set", neg |-> FALSE, s |-> chars]
NC(chars) == [t |-> "set", neg |-> TRUE, s |-> chars]
\* . (any character but a newline)
Dot == NC({"\n"})
Bol == [t |-> "bol"]
Eol == [t |-> "eol"]
Cat(xs) == [t |-> "seq", xs |-> xs]
Alt(xs) == [t |-> "alt", xs |-> xs]
\* x{lo,hi}; hi = -1 is no upper limit
Rep(x, lo, hi) == [t |-> "rep", x |-> x, lo |-> lo, hi |-> hi]
Star(x) == Rep(x, 0, -1)
Plus(x) == Rep(x, 1, -1)
Opt(x) == Rep(x, 0, 1)
\* a literal word
Lit(w) == Cat([i \in DOMAIN w |-> C({w[i]})])
\* the alternatives a|b|c of literal words
Words(ws) == Alt([i \in DOMAIN ws |-> Lit(ws[i])])

InClass(c, n, ic) ==
    LET hit == c \in n.s \/ (ic /\ SwapCase(c) \in n.s)
    IN  hit # n.neg

\* how many characters of the class n follow one another from position p on
Run(n, s, p, ic) ==
    LET stop == {q \in p..Len(s) : ~InClass(s[q], n, ic)}
    IN  (IF stop = {} THEN Len(s) + 1 ELSE Min(stop)) - p

\* x{lo,hi} for a character class x: lo to hi characters of the run at p
RunEnds(n, s, P, ic) ==
    UNION {LET r == Run(n.x, s, p, ic)
               top == IF n.hi # -1 /\ n.hi < r THEN n.hi ELSE r
           IN  {p + k : k \in n.lo..top} : p \in P}

RECURSIVE Ends(_, _, _, _)
RECURSIVE CatEnds(_, _, _, _, _)
RECURSIVE RepEnds(_, _, _, _, _)

Ends(n, s, P, ic) ==
    IF P = {} THEN {}
    ELSE CASE n.t = "set" -> {p + 1 : p \in {q \in P : q <= Len(s) /\ InClass(s[q], n, ic)}}
           [] n.t = "bol" -> P \cap {1}
           [] n.t = "eol" -> {p \in P : p = Len(s) + 1 \/ (p = Len(s) /\ s[p] = "\n")}
           [] n.t = "seq" -> CatEnds(n.xs, 1, s, P, ic)
           [] n.t = "alt" -> UNION {Ends(n.xs[i], s, P, ic) : i \in DOMAIN n.xs}
           [] n.t = "rep" -> IF n.x.t = "set" THEN RunEnds(n, s, P, ic)
                             ELSE RepEnds(n, 0, s, P, ic)

CatEnds(xs, i, s, P, ic) ==
    IF i > Len(xs) \/ P = {} THEN P
    ELSE CatEnds(xs, i + 1, s, Ends(xs[i], s, P, ic), ic)

\* P: where k repetitions of n.x can end
RepEnds(n, k, s, P, ic) ==
    IF P = {} THEN {}
    ELSE LET here == IF k >= n.lo THEN P ELSE {}
         IN  IF k = n.hi THEN here
             ELSE here \cup RepEnds(n, k + 1, s, Ends(n.x, s, P, ic) \ here, ic)

\* Pattern.search(s) is not None
Search(re, s) == Ends(re.ast, s, 1..(Len(s) + 1), re.ic) # {}

\* Pattern.match(s) is not None
Match(re, s) == Ends(re.ast, s, {1}, re.ic) # {}

\* re.compile(r"..."), re.compile(r"(?i)...")
Re(ast) == [ast |-> ast, ic |-> FALSE]
ReI(ast) == [ast |-> ast, ic |-> TRUE]

\* character classes of the pattern tables
Sep == C({"_", "-"} \cup Whitespace)            \* [_\-\s]
Ws == C(Whitespace)                             \* \s
Assign == C({"=", ":"})                         \* [=:]
Quote == C({"'", "\""})                         \* ['"]
NotSpaceQuote == NC(Whitespace \cup {"'", "\""}) \* [^\s'"]
UpperDigit == Uppers \cup Digits                \* A-Z0-9
Word == Alnum \cup {"_"}                        \* A-Za-z0-9_
WordDash == Alnum \cup {"_", "-"}               \* A-Za-z0-9_\-
Hex == Digits \cup {"a", "b", "c", "d", "e", "f"}                   \* 0-9a-f
\* \s*[=:]\s*['"]?
AssignQuote == Cat(<<Star(Ws), Assign, Star(Ws), Opt(Quote)>>)

(***************************************************************************)
(* SECRET_PATTERNS and SENSITIVE_FILE_PATTERNS                             *)
(***************************************************************************)

SECRET_PATTERNS == <<
    [name |-> "AWS Access Key",
     \* (?:^|[^A-Z0-9])AKIA[0-9A-Z]{16}(?:[^A-Z0-9]|$)
     regex |-> Re(Cat(<<Alt(<<Bol, NC(UpperDigit)>>), Lit(<<"A", "K", "I", "A">>),
                       Rep(C(UpperDigit), 16, 16), Alt(<<NC(UpperDigit), Eol>>)>>)),
     description |-> "AWS access key ID detected"],
    [name |-> "AWS Secret Key",
     \* (?i)aws[_\-\s]*secret[_\-\s]*(?:access)?[_\-\s]*key\s*[=:]\s*['"]?[A-Za-z0-9/+=]{40}
     regex |-> ReI(Cat(<<Lit(<<"a", "w", "s">>), Star(Sep), Lit(<<"s", "e", "c", "r", "e", "t">>), Star(Sep),
                        Opt(Lit(<<"a", "c", "c", "e", "s", "s">>)), Star(Sep), Lit(<<"k", "e", "y">>), AssignQuote,
                        Rep(C(Alnum \cup {"/", "+", "="}), 40, 40)>>)),
     description |-> "AWS secret access key assignment detected"],
    [name |-> "Private Key",
     \* -----BEGIN (?:RSA |EC |DSA |OPENSSH )?PRIVATE KEY-----
     regex |-> Re(Cat(<<Lit(<<"-", "-", "-", "-", "-", "B", "E", "G", "I", "N", " ">>),
                       Opt(Words(<<<<"R", "S", "A", " ">>, <<"E", "C", " ">>, <<"D", "S", "A", " ">>, <<"O", "P", "E", "N", "S", "S", "H", " ">>>>)),
                       Lit(<<"P", "R", "I", "V", "A", "T", "E", " ", "K", "E", "Y", "-", "-", "-", "-", "-">>)>>)),
     description |-> "Private key block detected"],
    [name |-> "GitHub Token",
     \* (?:ghp|gho|ghu|ghs|ghr)_[A-Za-z0-9_]{36,255}
     regex |-> Re(Cat(<<Words(<<<<"g", "h", "p">>, <<"g", "h", "o">>, <<"g", "h", "u">>, <<"g", "h", "s">>, <<"g", "h", "r">>>>), Lit(<<"_">>),
                       Rep(C(Word), 36, 255)>>)),
     description |-> "GitHub personal access token detected"],
    [name |-> "GitLab Token",
     \* glpat-[A-Za-z0-9\-]{20,}
     regex |-> Re(Cat(<<Lit(<<"g", "l", "p", "a", "t", "-">>), Rep(C(Alnum \cup {"-"}), 20, -1)>>)),
     description |-> "GitLab personal access token detected"],
    [name |-> "Slack Token",
     \* xox[bporas]-[A-Za-z0-9\-]{10,}
     regex |-> Re(Cat(<<Lit(<<"x", "o", "x">>), C({"b", "p", "o", "r", "a", "s"}), Lit(<<"-">>),
                       Rep(C(Alnum \cup {"-"}), 10, -1)>>)),
     description |-> "Slack API token detected"],
    [name |-> "Generic API Key",
     \* (?i)(?:api[_\-\s]*key|apikey|api[_\-\s]*secret|api[_\-\s]*token)\s*[=:]\s*['"]?[A-Za-z0-9_\-]{20,}['"]?
     regex |-> ReI(Cat(<<Alt(<<Cat(<<Lit(<<"a", "p", "i">>), Star(Sep), Lit(<<"k", "e", "y">>)>>),
                              Lit(<<"a", "p", "i", "k", "e", "y">>),
                              Cat(<<Lit(<<"a", "p", "i">>), Star(Sep), Lit(<<"s", "e", "c", "r", "e", "t">>)>>),
                              Cat(<<Lit(<<"a", "p", "i">>), Star(Sep), Lit(<<"t", "o", "k", "e", "n">>)>>)>>),
                        AssignQuote, Rep(C(WordDash), 20, -1), Opt(Quote)>>)),
     description |-> "Generic API key assignment detected"],
    [name |-> "Generic Secret",
     \* (?i)(?:secret|password|passwd|pwd|token|auth[_\-\s]*token|access[_\-\s]*token)\s*[=:]\s*['"]?[^\s'"]{8,}['"]?
     regex |-> ReI(Cat(<<Alt(<<Lit(<<"s", "e", "c", "r", "e", "t">>), Lit(<<"p", "a", "s", "s", "w", "o", "r", "d">>), Lit(<<"p", "a", "s", "s", "w", "d">>),
                              Lit(<<"p", "w", "d">>), Lit(<<"t", "o", "k", "e", "n">>),
                              Cat(<<Lit(<<"a", "u", "t", "h">>), Star(Sep), Lit(<<"t", "o", "k", "e", "n">>)>>),
                              Cat(<<Lit(<<"a", "c", "c", "e", "s", "s">>), Star(Sep), Lit(<<"t", "o", "k", "e", "n">>)>>)>>),
                        AssignQuote, Rep(NotSpaceQuote, 8, -1), Opt(Quote)>>)),
     description |-> "Potential secret/password assignment detected"],
    [name |-> "Database URL",
     \* (?i)(?:postgres|mysql|mongodb|redis|amqp|sqlite):\/\/[^\s'"]+:[^\s'"]+@
     regex |-> ReI(Cat(<<Words(<<<<"p", "o", "s", "t", "g", "r", "e", "s">>, <<"m", "y", "s", "q", "l">>, <<"m", "o", "n", "g", "o", "d", "b">>, <<"r", "e", "d", "i", "s">>, <<"a", "m", "q", "p">>, <<"s", "q", "l", "i", "t", "e">>>>),
                        Lit(<<":", "/", "/">>), Plus(NotSpaceQuote), Lit(<<":">>),
                        Plus(NotSpaceQuote), Lit(<<"@">>)>>)),
     description |-> "Database connection string with credentials detected"],
    [name |-> "JWT",
     \* eyJ[A-Za-z0-9_-]{10,}\.eyJ[A-Za-z0-9_-]{10,}\.[A-Za-z0-9_\-]{10,}
     regex |-> Re(Cat(<<Lit(<<"e", "y", "J">>), Rep(C(WordDash), 10, -1), Lit(<<".", "e", "y", "J">>),
                       Rep(C(WordDash), 10, -1), Lit(<<".">>), Rep(C(WordDash), 10, -1)>>)),
     description |-> "JSON Web Token detected"],
    [name |-> "Heroku API Key",
     \* (?i)heroku[_\-\s]*(?:api)?[_\-\s]*key\s*[=:]\s*['"]?[0-9a-f]{8}-[0-9a-f]{4}-[0-9a-f]{4}-[0-9a-f]{4}-[0-9a-f]{12}['"]?
     regex |-> ReI(Cat(<<Lit(<<"h", "e", "r", "o", "k", "u">>), Star(Sep), Opt(Lit(<<"a", "p", "i">>)), Star(Sep), Lit(<<"k", "e", "y">>),
                        AssignQuote, Rep(C(Hex), 8, 8), Lit(<<"-">>), Rep(C(Hex), 4, 4),
                        Lit(<<"-">>), Rep(C(Hex), 4, 4), Lit(<<"-">>), Rep(C(Hex), 4, 4),
                        Lit(<<"-">>), Rep(C(Hex), 12, 12), Opt(Quote)>>)),
     description |-> "Heroku API key detected"],
    [name |-> "Stripe Key",
     \* (?:sk|pk)_(?:live|test)_[A-Za-z0-9]{20,}
     regex |-> Re(Cat(<<Words(<<<<"s", "k">>, <<"p", "k">>>>), Lit(<<"_">>), Words(<<<<"l", "i", "v", "e">>, <<"t", "e", "s", "t">>>>),
                       Lit(<<"_">>), Rep(C(Alnum), 20, -1)>>)),
     description |-> "Stripe API key detected"],
    [name |-> "SendGrid Key",
     \* SG\.[A-Za-z0-9_\-]{22}\.[A-Za-z0-9_\-]{43}
     regex |-> Re(Cat(<<Lit(<<"S", "G", ".">>), Rep(C(WordDash), 22, 22), Lit(<<".">>),
                       Rep(C(WordDash), 43, 43)>>)),
     description |-> "SendGrid API key detected"],
    [name |-> "PyPI Token",
     \* pypi-[A-Za-z0-9_\-]{20,}
     regex |-> Re(Cat(<<Lit(<<"p", "y", "p", "i", "-">>), Rep(C(WordDash), 20, -1)>>)),
     description |-> "PyPI API token detected"],
    [name |-> "npm Token",
     \* npm_[A-Za-z0-9]{36,}
     regex |-> Re(Cat(<<Lit(<<"n", "p", "m", "_">>), Rep(C(Alnum), 36, -1)>>)),
     description |-> "npm access token detected"],
    [name |-> "Azure Key",
     \* (?i)azure[_\-\s]*(?:key|secret|token|password)\s*[=:]\s*['\"]?[A-Za-z0-9+/=]{20,}['\"]?
     regex |-> ReI(Cat(<<Lit(<<"a", "z", "u", "r", "e">>), Star(Sep),
                        Words(<<<<"k", "e", "y">>, <<"s", "e", "c", "r", "e", "t">>, <<"t", "o", "k", "e", "n">>, <<"p", "a", "s", "s", "w", "o", "r", "d">>>>), AssignQuote,
                        Rep(C(Alnum \cup {"+", "/", "="}), 20, -1), Opt(Quote)>>)),
     description |-> "Azure credential detected"],
    [name |-> "Google API Key",
     \* AIza[0-9A-Za-z_\-]{35}
     regex |-> Re(Cat(<<Lit(<<"A", "I", "z", "a">>), Rep(C(WordDash), 35, 35)>>)),
     description |-> "Google API key detected"],
    [name |-> "Google OAuth",
     \* [0-9]+-[a-z0-9_]{32}\.apps\.googleusercontent\.com
     regex |-> Re(Cat(<<Plus(C(Digits)), Lit(<<"-">>),
                       Rep(C(Lowers \cup Digits \cup {"_"}), 32, 32),
                       Lit(<<".", "a", "p", "p", "s", ".", "g", "o", "o", "g", "l", "e", "u", "s", "e", "r", "c", "o", "n", "t", "e", "n", "t", ".", "c", "o", "m">>)>>)),
     description |-> "Google OAuth client ID detected"],
    [name |-> "Twilio Key",
     \* SK[0-9a-fA-F]{32}
     regex |-> Re(Cat(<<Lit(<<"S", "K">>), Rep(C(Hex \cup {"A", "B", "C", "D", "E", "F"}), 32, 32)>>)),
     description |-> "Twilio API key detected"],
    [name |-> "Mailgun Key",
     \* key-[0-9a-zA-Z]{32}
     regex |-> Re(Cat(<<Lit(<<"k", "e", "y", "-">>), Rep(C(Alnum), 32, 32)>>)),
     description |-> "Mailgun API key detected"],
    [name |-> "Square Token",
     \* sq0[a-z]{3}-[0-9A-Za-z_\-]{22,}
     regex |-> Re(Cat(<<Lit(<<"s", "q", "0">>), Rep(C(Lowers), 3, 3), Lit(<<"-">>),
                       Rep(C(WordDash), 22, -1)>>)),
     description |-> "Square access token detected"]
>>

SENSITIVE_FILE_PATTERNS == <<
    \* (?i).*\.pem$
    [name |-> "Private key file", regex |-> ReI(Cat(<<Star(Dot), Lit(<<".", "p", "e", "m">>), Eol>>))],
    \* (?i).*\.key$
    [name |-> "Private key file", regex |-> ReI(Cat(<<Star(Dot), Lit(<<".", "k", "e", "y">>), Eol>>))],
    \* ^\.env(?:\..+)?$
    [name |-> "Environment file",
     regex |-> Re(Cat(<<Bol, Lit(<<".", "e", "n", "v">>), Opt(Cat(<<Lit(<<".">>), Plus(Dot)>>)), Eol>>))],
    \* (?i).*credentials.*
    [name |-> "Credentials file",
     regex |-> ReI(Cat(<<Star(Dot), Lit(<<"c", "r", "e", "d", "e", "n", "t", "i", "a", "l", "s">>), Star(Dot)>>))],
    \* (?i).*secrets?\.(?:ya?ml|json|toml|cfg|ini)$
    [name |-> "Secret config",
     regex |-> ReI(Cat(<<Star(Dot), Lit(<<"s", "e", "c", "r", "e", "t">>), Opt(Lit(<<"s">>)), Lit(<<".">>),
                        Alt(<<Cat(<<Lit(<<"y">>), Opt(Lit(<<"a">>)), Lit(<<"m", "l">>)>>),
                              Lit(<<"j", "s", "o", "n">>), Lit(<<"t", "o", "m", "l">>), Lit(<<"c", "f", "g">>), Lit(<<"i", "n", "i">>)>>),
                        Eol>>))],
    \* (?i).*id_(?:rsa|dsa|ecdsa|ed25519)$
    [name |-> "Key file",
     regex |-> ReI(Cat(<<Star(Dot), Lit(<<"i", "d", "_">>),
                        Words(<<<<"r", "s", "a">>, <<"d", "s", "a">>, <<"e", "c", "d", "s", "a">>, <<"e", "d", "2", "5", "5", "1", "9">>>>), Eol>>))],
    \* (?i).*\.p12$
    [name |-> "Certificate", regex |-> ReI(Cat(<<Star(Dot), Lit(<<".", "p", "1", "2">>), Eol>>))],
    \* (?i).*\.keystore$
    [name |-> "Keystore", regex |-> ReI(Cat(<<Star(Dot), Lit(<<".", "k", "e", "y", "s", "t", "o", "r", "e">>), Eol>>))],
    \* (?i).*\.htpasswd$
    [name |-> "htpasswd", regex |-> ReI(Cat(<<Star(Dot), Lit(<<".", "h", "t", "p", "a", "s", "s", "w", "d">>), Eol>>))],
    \* (?i).*(?:token|key|secret|cred|auth|password).*\.txt$
    [name |-> "Token/credential file",
     regex |-> ReI(Cat(<<Star(Dot),
                        Words(<<<<"t", "o", "k", "e", "n">>, <<"k", "e", "y">>, <<"s", "e", "c", "r", "e", "t">>, <<"c", "r", "e", "d">>, <<"a", "u", "t", "h">>, <<"p", "a", "s", "s", "w", "o", "r", "d">>>>),
                        Star(Dot), Lit(<<".", "t", "x", "t">>), Eol>>))]
>>

(***************************************************************************)
(* _line_entropy                                                           *)
(***************************************************************************)

\* log2(k) in millionths of a bit, rounded, for k = 1..128 (math.log2)
Log2Micro == <<
    0, 1000000, 1584963, 2000000, 2321928, 2584963, 2807355, 3000000,
    3169925, 3321928, 3459432, 3584963, 3700440, 3807355, 3906891, 4000000,
    4087463, 4169925, 4247928, 4321928, 4392317, 4459432, 4523562, 4584963,
    4643856, 4700440, 4754888, 4807355, 4857981, 4906891, 4954196, 5000000,
    5044394, 5087463, 5129283, 5169925, 5209453, 5247928, 5285402, 5321928,
    5357552, 5392317, 5426265, 5459432, 5491853, 5523562, 5554589, 5584963,
    5614710, 5643856, 5672425, 5700440, 5727920, 5754888, 5781360, 5807355,
    5832890, 5857981, 5882643, 5906891, 5930737, 5954196, 5977280, 6000000,
    6022368, 6044394, 6066089, 6087463, 6108524, 6129283, 6149747, 6169925,
    6189825, 6209453, 6228819, 6247928, 6266787, 6285402, 6303781, 6321928,
    6339850, 6357552, 6375039, 6392317, 6409391, 6426265, 6442943, 6459432,
    6475733, 6491853, 6507795, 6523562, 6539159, 6554589, 6569856, 6584963,
    6599913, 6614710, 6629357, 6643856, 6658211, 6672425, 6686501, 6700440,
    6714246, 6727920, 6741467, 6754888, 6768184, 6781360, 6794416, 6807355,
    6820179, 6832890, 6845490, 6857981, 6870365, 6882643, 6894818, 6906891,
    6918863, 6930737, 6942515, 6954196, 6965784, 6977280, 6988685, 7000000
>>

RECURSIVE SumOver(_, _)
SumOver(S, f) ==
    IF S = {} THEN 0
    ELSE LET x == CHOOSE y \in S : TRUE IN f[x] + SumOver(S \ {x}, f)

\* freq[ch]: how often ch occurs in line
freq(line) == [ch \in Range(line) |-> Cardinality({i \in DOMAIN line : line[i] = ch})]

\* Shannon entropy of a string in millionths of a bit per character:
\* -sum((c / length) * log2(c / length)) = sum(c * (log2(length) - log2(c))) / length
line_entropy(line) ==
    IF line = <<>> THEN 0
    ELSE LET fr == freq(line)
             length == Len(line)
             bits == [ch \in DOMAIN fr |-> fr[ch] * (Log2Micro[length] - Log2Micro[fr[ch]])]
         IN  SumOver(DOMAIN fr, bits) \div length

MIN_SECRET_LENGTH == 20
\* 4.0 bits per character
MIN_SECRET_ENTROPY == 4

(***************************************************************************)
(* scan_content_for_secrets, scan_filename_for_secrets                     *)
(***************************************************************************)

Finding(pattern_name, description, name, filepath, line_number, line_preview) ==
    [pattern_name |-> pattern_name,
     \* the description's fixed text and the file name formatted into it
     description |-> <<description, name>>,
     filepath |-> filepath,
     line_number |-> line_number,
     line_preview |-> line_preview]

\* Preview, cutting at 80 characters instead of 77
PreviewCutAt80(stripped) ==
    IF Len(stripped) > 80 THEN Take(stripped, 80) \o <<".", ".", ".">> ELSE stripped

\* preview = stripped; if len(preview) > 80: preview = preview[:77] + "..."
Preview(stripped) ==
    IF Len(stripped) > 80 THEN Take(stripped, 77) \o <<".", ".", ".">> ELSE stripped

\* PatternFindings, leaving the loop at the first entry that hits
RECURSIVE PatternFindingsFirstHit(_, _, _, _, _)
PatternFindingsFirstHit(i, line, stripped, line_num, filepath) ==
    IF i > Len(SECRET_PATTERNS) THEN <<>>
    ELSE IF Search(SECRET_PATTERNS[i].regex, line)
         THEN <<Finding(SECRET_PATTERNS[i].name, SECRET_PATTERNS[i].description, <<>>,
                        filepath, line_num, Preview(stripped))>>
         ELSE PatternFindingsFirstHit(i + 1, line, stripped, line_num, filepath)

\* the loop over SECRET_PATTERNS from entry i on: one finding per entry that hits
RECURSIVE PatternFindings(_, _, _, _, _)
PatternFindings(i, line, stripped, line_num, filepath) ==
    IF i > Len(SECRET_PATTERNS) THEN <<>>
    ELSE (IF Search(SECRET_PATTERNS[i].regex, line)
          THEN <<Finding(SECRET_PATTERNS[i].name, SECRET_PATTERNS[i].description, <<>>,
                         filepath, line_num, Preview(stripped))>>
          ELSE <<>>)
         \o PatternFindings(i + 1, line, stripped, line_num, filepath)

\* token.strip("\"'`,;:=()[]{}< >"), but for the backquote
TokenDelims == {"\"", "'", ",", ";", ":", "=", "(", ")", "[", "]", "{", "}", "<", " ", ">"}
Clean(token) == StripChars(token, TokenDelims)

\* Qualifies, without the test for a digit
QualifiesWithoutDigit(clean) ==
    /\ Len(clean) >= MIN_SECRET_LENGTH
    /\ line_entropy(clean) >= MIN_SECRET_ENTROPY * 1000000
    /\ \E i \in DOMAIN clean : isalpha(clean[i])

\* the condition of the fallback on a cleaned token
Qualifies(clean) ==
    /\ Len(clean) >= MIN_SECRET_LENGTH
    /\ line_entropy(clean) >= MIN_SECRET_ENTROPY * 1000000
    /\ \E i \in DOMAIN clean : isdigit(clean[i])
    /\ \E i \in DOMAIN clean : isalpha(clean[i])

\* EntropyFindings, without the break
RECURSIVE EntropyFindingsNoBreak(_, _, _, _, _)
EntropyFindingsNoBreak(i, tokens, stripped, line_num, filepath) ==
    IF i > Len(tokens) THEN <<>>
    ELSE (IF Qualifies(Clean(tokens[i]))
          THEN <<Finding("High-Entropy String", "Possible secret or token (high entropy)",
                         <<>>, filepath, line_num, Preview(stripped))>>
          ELSE <<>>)
         \o EntropyFindingsNoBreak(i + 1, tokens, stripped, line_num, filepath)

\* the loop over stripped.split() from token i on, left at the first hit (break)
RECURSIVE EntropyFindings(_, _, _, _, _)
EntropyFindings(i, tokens, stripped, line_num, filepath) ==
    IF i > Len(tokens) THEN <<>>
    ELSE IF Qualifies(Clean(tokens[i]))
         THEN <<Finding("High-Entropy String", "Possible secret or token (high entropy)",
                        <<>>, filepath, line_num, Preview(stripped))>>
         ELSE EntropyFindings(i + 1, tokens, stripped, line_num, filepath)

\* a line scan_content_for_secrets passes over: empty after trimming, or a
\* comment with neither "=" nor ":"
Skipped(stripped) ==
    \/ stripped = <<>>
    \/ startswith(stripped, <<"#">>) /\ ~Contains(stripped, "=") /\ ~Contains(stripped, ":")

\* the body of the loop over the lines for one line
ScanLine(line, line_num, filepath) ==
    LET stripped == strip(line) IN
    IF Skipped(stripped) THEN <<>>
    ELSE LET hits == PatternFindings(1, line, stripped, line_num, filepath)
         IN  IF hits # <<>> THEN hits
             ELSE EntropyFindings(1, split(stripped), stripped, line_num, filepath)

RECURSIVE ScanLines(_, _, _)
ScanLines(lines, line_num, filepath) ==
    IF line_num > Len(lines) THEN <<>>
    ELSE ScanLine(lines[line_num], line_num, filepath)
         \o ScanLines(lines, line_num + 1, filepath)

scan_content_for_secrets(content, filepath) ==
    ScanLines(splitlines(content), 1, filepath)

\* Path(filepath).name: the last component, "" when there is none
PathName(filepath) ==
    LET parts == SelectSeq(Pieces(filepath, {"/"}), LAMBDA x : x # <<>> /\ x # <<".">>)
    IN  IF parts = <<>> THEN <<>> ELSE parts[Len(parts)]

\* the loop over SENSITIVE_FILE_PATTERNS from entry i on
RECURSIVE FilenameFindings(_, _, _)
FilenameFindings(i, name, filepath) ==
    IF i > Len(SENSITIVE_FILE_PATTERNS) THEN <<>>
    ELSE (IF Match(SENSITIVE_FILE_PATTERNS[i].regex, name)
          THEN <<Finding(SENSITIVE_FILE_PATTERNS[i].name, "Sensitive file type: ", name,
                         filepath, 0, <<"(", "f", "i", "l", "e", "n", "a", "m", "e", " ", "m", "a", "t", "c", "h", ")">>)>>
          ELSE <<>>)
         \o FilenameFindings(i + 1, name, filepath)

scan_filename_for_secrets(filepath) ==
    FilenameFindings(1, PathName(filepath), filepath)

(***************************************************************************)
(* scan_files_for_secrets                                                  *)
(*                                                                         *)
(* What the scanner meets at a listed path:                                *)
(*   "text"         a regular file that decodes as UTF-8                   *)
(*   "missing"      nothing                                                *)
(*   "undecodable"  a regular file that is not UTF-8                       *)
(*   "unreadable"   a regular file without read permission                 *)
(*   "directory"    a directory                                            *)
(*   "vanishing"    a regular file removed between exists() and the read   *)
(*   "locked"       a file in a directory without search permission        *)
(***************************************************************************)

FileKinds == {"text", "missing", "undecodable", "unreadable", "directory", "vanishing", "locked"}

\* path.exists(): "yes", "no", or the exception it raises.  pathlib's exists()
\* before Python 3.14 re-raises an OSError that is not ENOENT/ENOTDIR/EBADF/
\* ELOOP; from 3.14 on it returns False on any OSError (strictExists = FALSE).
PathExists(kind, strictExists) ==
    CASE kind = "missing" -> "no"
      [] kind = "locked" -> IF strictExists THEN "PermissionError" ELSE "no"
      [] OTHER -> "yes"

\* path.read_text(encoding="utf-8"): "ok", or the exception it raises
ReadText(kind) ==
    CASE kind = "text" -> "ok"
      [] kind = "undecodable" -> "UnicodeDecodeError"
      [] kind = "unreadable" -> "PermissionError"
      [] kind = "directory" -> "IsADirectoryError"
      [] kind = "vanishing" -> "FileNotFoundError"
      [] kind = "locked" -> "PermissionError"
      [] kind = "missing" -> "FileNotFoundError"

\* the outcome of a call: the value returned, or the exception that escaped
Returned(value) == [raised |-> "", value |-> value]
Raised(exception) == [raised |-> exception, value |-> <<>>]

\* except (UnicodeDecodeError, PermissionError): pass
CaughtByScan == {"UnicodeDecodeError", "PermissionError"}

\* the loop over files, with the content findings of a file put before its
\* filename findings
RECURSIVE ScanFilesFromContentFirst(_, _, _, _, _)
ScanFilesFromContentFirst(i, files, disk, strictExists, all_findings) ==
    IF i > Len(files) THEN Returned(all_findings)
    ELSE LET filepath == files[i]
             named == scan_filename_for_secrets(filepath)
             there == PathExists(disk[filepath].kind, strictExists)
             read == ReadText(disk[filepath].kind)
         IN  CASE there = "no" ->
                    ScanFilesFromContentFirst(i + 1, files, disk, strictExists,
                        all_findings \o named)
               [] there = "yes" /\ read = "ok" ->
                    ScanFilesFromContentFirst(i + 1, files, disk, strictExists,
                        all_findings \o
                        scan_content_for_secrets(disk[filepath].content, filepath) \o named)
               [] there = "yes" /\ read \in CaughtByScan ->
                    ScanFilesFromContentFirst(i + 1, files, disk, strictExists,
                        all_findings \o named)
               [] there = "yes" /\ read \notin CaughtByScan \cup {"ok"} -> Raised(read)
               [] OTHER -> Raised(there)

\* the loop over files from entry i on; all_findings is the list so far.
\* disk[filepath] is what is at root / filepath (at filepath, if absolute)
\* and, for a text, what it holds.
RECURSIVE ScanFilesFrom(_, _, _, _, _)
ScanFilesFrom(i, files, disk, strictExists, all_findings) ==
    IF i > Len(files) THEN Returned(all_findings)
    ELSE LET filepath == files[i]
             named == all_findings \o scan_filename_for_secrets(filepath)
             there == PathExists(disk[filepath].kind, strictExists)
             read == ReadText(disk[filepath].kind)
         IN  CASE there = "no" -> ScanFilesFrom(i + 1, files, disk, strictExists, named)
               [] there = "yes" /\ read = "ok" ->
                    ScanFilesFrom(i + 1, files, disk, strictExists,
                        named \o scan_content_for_secrets(disk[filepath].content, filepath))
               [] there = "yes" /\ read \in CaughtByScan ->
                    ScanFilesFrom(i + 1, files, disk, strictExists, named)
               [] there = "yes" /\ read \notin CaughtByScan \cup {"ok"} -> Raised(read)
               [] OTHER -> Raised(there)

scan_files_for_secrets(files, disk, strictExists) ==
    ScanFilesFrom(1, files, disk, strictExists, <<>>)

(***************************************************************************)
(* Configuration                                                           *)
(***************************************************************************)

DEFAULT_CONFIG ==
    [project_name |-> <<>>,     \* None: auto-detected
     core_files |-> <<>>,       \* None: auto-detected
     source_dirs |-> <<>>,      \* None: auto-detected
     ignore_dirs |-> <<<<".", "g", "i", "t">>, <<"_", "_", "p", "y", "c", "a", "c", "h", "e", "_", "_">>, <<".", "p", "y", "t", "e", "s", "t", "_", "c", "a", "c", "h", "e">>, <<"v", "e", "n", "v">>, <<".", "v", "e", "n", "v">>,
                       <<"e", "n", "v">>, <<".", "e", "n", "v">>, <<"n", "o", "d", "e", "_", "m", "o", "d", "u", "l", "e", "s">>, <<".", "m", "y", "p", "y", "_", "c", "a", "c", "h", "e">>, <<".", "r", "u", "f", "f", "_", "c", "a", "c", "h", "e">>,
                       <<"d", "i", "s", "t">>, <<"b", "u", "i", "l", "d">>, <<".", "t", "o", "x">>, <<".", "n", "o", "x">>, <<".", "e", "g", "g", "s">>, <<"h", "t", "m", "l", "c", "o", "v">>,
                       <<".", "c", "o", "v", "e", "r", "a", "g", "e">>, <<".", "i", "p", "y", "n", "b", "_", "c", "h", "e", "c", "k", "p", "o", "i", "n", "t", "s">>, <<".", "i", "d", "e", "a">>, <<".", "v", "s", "c", "o", "d", "e">>>>,
     ignore_patterns |-> <<<<"*", ".", "e", "g", "g", "-", "i", "n", "f", "o">>, <<"*", ".", "p", "y", "c">>, <<"*", ".", "p", "y", "o">>>>,
     extensions |-> <<<<".", "p", "y">>>>,
     tree_depth |-> 3,
     default_module |-> <<>>]   \* None

CORE_FILE_CANDIDATES ==
    <<<<"p", "y", "p", "r", "o", "j", "e", "c", "t", ".", "t", "o", "m", "l">>, <<"s", "e", "t", "u", "p", ".", "p", "y">>, <<"s", "e", "t", "u", "p", ".", "c", "f", "g">>, <<"R", "E", "A", "D", "M", "E", ".", "m", "d">>, <<"R", "E", "A", "D", "M", "E", ".", "r", "s", "t">>,
      <<"r", "e", "q", "u", "i", "r", "e", "m", "e", "n", "t", "s", ".", "t", "x", "t">>, <<"M", "a", "k", "e", "f", "i", "l", "e">>, <<"D", "o", "c", "k", "e", "r", "f", "i", "l", "e">>, <<"d", "o", "c", "k", "e", "r", "-", "c", "o", "m", "p", "o", "s", "e", ".", "y", "m", "l">>, <<".", "e", "n", "v", ".", "e", "x", "a", "m", "p", "l", "e">>>>

\* fnmatch.translate(pat) for patterns of literals, "*" and "?"
GlobAst(pat) ==
    Cat([i \in DOMAIN pat |->
            CASE pat[i] = "*" -> Star(NC({}))
              [] pat[i] = "?" -> NC({})
              [] OTHER -> C({pat[i]})])

\* fnmatch(name, pat): the whole name matches
fnmatch(name, pat) == (Len(name) + 1) \in Ends(GlobAst(pat), name, {1}, FALSE)

should_ignore(name, config) ==
    \/ name \in Range(config.ignore_dirs)
    \/ \E i \in DOMAIN config.ignore_patterns : fnmatch(name, config.ignore_patterns[i])
    \/ startswith(name, <<".">>)

(***************************************************************************)
(* Paths and the file system                                               *)
(*                                                                         *)
(* A Path under the root is the tuple of its components below the root;    *)
(* the root is <<>>.  A file system is the set of its files, the set of    *)
(* its directories, and the set of the directories whose listing raises    *)
(* PermissionError (no read permission; lookup of an entry by name works). *)
(* A path that starts with ".." lies outside the root.                     *)
(***************************************************************************)

Root == <<>>
Child(dir, name) == Append(dir, name)
Parent(path) == SubSeq(path, 1, Len(path) - 1)
\* the name of the resolved root directory
RootName == <<"p", "r", "o", "j">>
\* Path.name
NameOf(path) == IF path = <<>> THEN RootName ELSE path[Len(path)]
\* the directories above path, from the first below the root to its parent
Ancestors(path) == {SubSeq(path, 1, k) : k \in 1..(Len(path) - 1)}

\* Path.suffix: from the last "." of the name on, if that is neither its
\* first nor its last character
suffix(path) ==
    LET name == NameOf(path)
        dots == {i \in DOMAIN name : name[i] = "."}
    IN  IF dots # {} /\ 1 < Max(dots) /\ Max(dots) < Len(name)
        THEN SubSeq(name, Max(dots), Len(name))
        ELSE <<>>

\* str(path.relative_to(root))
RelStr(path) == IF path = <<>> THEN <<".">> ELSE Join(path, <<"/">>)

\* root / d for a configured string d
PathOf(d) == SelectSeq(Pieces(d, {"/"}), LAMBDA x : x # <<>> /\ x # <<".">>)

\* a < b for str
StrLess(a, b) ==
    LET diff == {i \in 1..(IF Len(a) < Len(b) THEN Len(a) ELSE Len(b)) : a[i] # b[i]}
    IN  IF diff = {} THEN Len(a) < Len(b)
        ELSE Ord(a[Min(diff)]) < Ord(b[Min(diff)])

\* a < b for Path: component by component
PathLess(p, q) ==
    LET diff == {i \in 1..(IF Len(p) < Len(q) THEN Len(p) ELSE Len(q)) : p[i] # q[i]}
    IN  IF diff = {} THEN Len(p) < Len(q)
        ELSE StrLess(p[Min(diff)], q[Min(diff)])

\* the elements of S in ascending order; before holds the pairs <<a, b>>
\* with a < b
Ascending(S, before) ==
    [k \in 1..Cardinality(S) |->
        CHOOSE x \in S : Cardinality({y \in S : <<y, x>> \in before}) = k - 1]

\* the pairs of paths of S in ascending order of Path
PathOrder(S) == {pair \in S \X S : PathLess(pair[1], pair[2])}

Reverse(seq) == [i \in DOMAIN seq |-> seq[Len(seq) + 1 - i]]

\* sorted, returning the list as it was handed in
Unsorted(paths) == paths

\* sorted(paths)
sorted(paths) == Ascending(Range(paths), PathOrder(Range(paths)))

is_dir(fs, path) == path = Root \/ path \in fs.dirs
is_file(fs, path) == path \in fs.files
exists(fs, path) == is_dir(fs, path) \/ is_file(fs, path)

\* dir.iterdir() raises PermissionError
ListDenied(fs, dir) == dir \in fs.unlistable

\* what dir holds; ".." leads out of it and is no entry of it
Entries(fs, dir) ==
    {p \in fs.files \cup fs.dirs :
        Len(p) = Len(dir) + 1 /\ Parent(p) = dir /\ NameOf(p) # <<".", ".">>}

\* the order in which the file system hands out the entries of a directory
\* is not specified: the model lets it be ascending or descending
EnumOrders == {"asc", "desc"}
InEnumOrder(S, enum) ==
    IF enum = "asc" THEN Ascending(S, PathOrder(S)) ELSE Reverse(Ascending(S, PathOrder(S)))

\* dir.iterdir()
iterdir(fs, dir, enum) == InEnumOrder(Entries(fs, dir), enum)

\* dir.rglob("*"): everything below dir; what is in a directory that cannot
\* be listed is left out without an error
rglob(fs, dir, enum) ==
    InEnumOrder({p \in fs.files \cup fs.dirs :
                    /\ Len(p) > Len(dir)
                    /\ SubSeq(p, 1, Len(dir)) = dir
                    /\ \A k \in (Len(dir) + 1)..Len(p) : p[k] # <<".", ".">>
                    /\ \A k \in Len(dir)..(Len(p) - 1) : ~ListDenied(fs, SubSeq(p, 1, k))},
                enum)

(***************************************************************************)
(* dict: the items in insertion order                                      *)
(***************************************************************************)

HasKey(dict, key) == \E i \in DOMAIN dict : dict[i].key = key

\* dict.setdefault(key, value): a key already there keeps its value
DictSetIfAbsent(dict, key, value) ==
    IF HasKey(dict, key) THEN dict
    ELSE Append(dict, [key |-> key, value |-> value])

\* del dict[key] before dict[key] = value: the key moves to the end
DictSetMovingToEnd(dict, key, value) ==
    Append(SelectSeq(dict, LAMBDA entry : entry.key # key), [key |-> key, value |-> value])

\* dict[key] = value: a key already there keeps its place
DictSet(dict, key, value) ==
    IF HasKey(dict, key)
    THEN [i \in DOMAIN dict |-> IF dict[i].key = key THEN [key |-> key, value |-> value] ELSE dict[i]]
    ELSE Append(dict, [key |-> key, value |-> value])

\* dict.update(other)
RECURSIVE DictUpdate(_, _)
DictUpdate(dict, other) ==
    IF other = <<>> THEN dict
    ELSE DictUpdate(DictSet(dict, other[1].key, other[1].value), Tail(other))

(***************************************************************************)
(* discover_source_dirs, discover_modules, discover_all_modules,           *)
(* detect_core_files, discover_all_files                                   *)
(*                                                                         *)
(* A call either returns or lets the first exception of a file-system call *)
(* escape; no function below catches one but _walk.  So a call raises if   *)
(* some file-system call on its path would raise, and returns the value    *)
(* computed without regard to permissions otherwise.                       *)
(***************************************************************************)

InitPy == <<"_", "_", "i", "n", "i", "t", "_", "_", ".", "p", "y">>

SourceDirsValue(fs, config, enum) ==
    IF config.source_dirs # <<>>
    THEN \* [root / d for d in config["source_dirs"] if (root / d).is_dir()]
         SelectSeq([i \in DOMAIN config.source_dirs |-> PathOf(config.source_dirs[i])],
                   LAMBDA d : is_dir(fs, d))
    ELSE LET src_dir == <<<<"s", "r", "c">>>>
             fromSrc ==
                IF is_dir(fs, src_dir)
                THEN SelectSeq(sorted(iterdir(fs, src_dir, enum)),
                        LAMBDA item : is_dir(fs, item) /\ exists(fs, Child(item, InitPy)))
                ELSE <<>>
             fromRoot ==
                SelectSeq(sorted(iterdir(fs, Root, enum)),
                    LAMBDA item : /\ is_dir(fs, item)
                                  /\ ~should_ignore(NameOf(item), config)
                                  /\ exists(fs, Child(item, InitPy))
                                  /\ item \notin Range(fromSrc))
         IN  fromSrc \o fromRoot

\* a file-system call of discover_source_dirs raises PermissionError:
\* sorted(src_dir.iterdir()); the root itself can be listed
SourceDirsDenied(fs, config) ==
    /\ config.source_dirs = <<>>
    /\ is_dir(fs, <<<<"s", "r", "c">>>>)
    /\ ListDenied(fs, <<<<"s", "r", "c">>>>)

discover_source_dirs(fs, config, enum) ==
    IF SourceDirsDenied(fs, config) THEN Raised("PermissionError")
    ELSE Returned(SourceDirsValue(fs, config, enum))

\* [str(f.relative_to(root)) for f in paths]
RelStrs(paths) == [i \in DOMAIN paths |-> RelStr(paths[i])]

\* the assignments modules[name] = files of discover_modules, in order
ModuleEntries(source_dir, fs, config, enum) ==
    LET extensions == Range(config.extensions)
        top_level_files ==
            RelStrs(SelectSeq(sorted(iterdir(fs, source_dir, enum)),
                        LAMBDA f : is_file(fs, f) /\ suffix(f) \in extensions))
        own == IF top_level_files # <<>>
               THEN <<[key |-> NameOf(source_dir), value |-> top_level_files]>>
               ELSE <<>>
        items == SelectSeq(sorted(iterdir(fs, source_dir, enum)),
                    LAMBDA item : is_dir(fs, item) /\ ~should_ignore(NameOf(item), config))
        module_files(item) ==
            RelStrs(SelectSeq(sorted(rglob(fs, item, enum)),
                        LAMBDA f : /\ is_file(fs, f)
                                   /\ suffix(f) \in extensions
                                   /\ ~should_ignore(NameOf(f), config)))
        subs == SelectSeq([i \in DOMAIN items |->
                              [key |-> NameOf(items[i]), value |-> module_files(items[i])]],
                          LAMBDA m : m.value # <<>>)
    IN  own \o subs

ModulesValue(source_dir, fs, config, enum) ==
    DictUpdate(<<>>, ModuleEntries(source_dir, fs, config, enum))

discover_modules(source_dir, fs, config, enum) ==
    IF ListDenied(fs, source_dir) THEN Raised("PermissionError")
    ELSE Returned(ModulesValue(source_dir, fs, config, enum))

\* the list with one more name
special_dirs_and_docs == <<<<"t", "e", "s", "t", "s">>, <<"t", "e", "s", "t">>, <<"s", "c", "r", "i", "p", "t", "s">>, <<"e", "x", "a", "m", "p", "l", "e", "s">>, <<"b", "e", "n", "c", "h", "m", "a", "r", "k", "s">>, <<"n", "o", "t", "e", "b", "o", "o", "k", "s">>, <<"d", "o", "c", "s">>>>

special_dirs == <<<<"t", "e", "s", "t", "s">>, <<"t", "e", "s", "t">>, <<"s", "c", "r", "i", "p", "t", "s">>, <<"e", "x", "a", "m", "p", "l", "e", "s">>, <<"b", "e", "n", "c", "h", "m", "a", "r", "k", "s">>, <<"n", "o", "t", "e", "b", "o", "o", "k", "s">>>>

\* the loop over source_dirs from entry i on; an exception of
\* discover_modules ends it
RECURSIVE UpdateFromSourceDirs(_, _, _, _, _, _)
UpdateFromSourceDirs(all_modules, source_dirs, i, fs, config, enum) ==
    IF i > Len(source_dirs) THEN Returned(all_modules)
    ELSE LET sub_modules == discover_modules(source_dirs[i], fs, config, enum) IN
         IF sub_modules.raised # "" THEN sub_modules
         ELSE UpdateFromSourceDirs(DictUpdate(all_modules, sub_modules.value),
                                   source_dirs, i + 1, fs, config, enum)

\* the loop over special_dirs from entry i on
RECURSIVE UpdateFromSpecialDirs(_, _, _, _, _)
UpdateFromSpecialDirs(all_modules, i, fs, config, enum) ==
    IF i > Len(special_dirs) THEN all_modules
    ELSE LET dir_name == special_dirs[i]
             dir_path == Child(Root, dir_name)
             py_files ==
                RelStrs(SelectSeq(sorted(rglob(fs, dir_path, enum)),
                            LAMBDA f : is_file(fs, f) /\ suffix(f) \in Range(config.extensions)))
         IN  UpdateFromSpecialDirs(
                IF is_dir(fs, dir_path) /\ ~should_ignore(dir_name, config) /\ py_files # <<>>
                THEN DictSet(all_modules, dir_name, py_files)
                ELSE all_modules,
                i + 1, fs, config, enum)

\* the root's own files as the module "root" whatever all_modules holds
RootModuleAlways(all_modules, fs, config, enum) ==
    LET top_py == RelStrs(SelectSeq(sorted(iterdir(fs, Root, enum)),
                    LAMBDA f : /\ is_file(fs, f)
                               /\ suffix(f) \in Range(config.extensions)
                               /\ ~should_ignore(NameOf(f), config)))
    IN  IF top_py # <<>> THEN DictSet(all_modules, <<"r", "o", "o", "t">>, top_py) ELSE all_modules

\* if not all_modules: the root's own files as the module "root"
RootModule(all_modules, fs, config, enum) ==
    LET top_py == RelStrs(SelectSeq(sorted(iterdir(fs, Root, enum)),
                    LAMBDA f : /\ is_file(fs, f)
                               /\ suffix(f) \in Range(config.extensions)
                               /\ ~should_ignore(NameOf(f), config)))
    IN  IF all_modules # <<>> THEN all_modules
        ELSE IF top_py # <<>> THEN <<[key |-> <<"r", "o", "o", "t">>, value |-> top_py]>>
        ELSE <<>>

discover_all_modules(fs, config, enum) ==
    LET source_dirs == discover_source_dirs(fs, config, enum) IN
    IF source_dirs.raised # "" THEN source_dirs
    ELSE LET updated == UpdateFromSourceDirs(<<>>, source_dirs.value, 1, fs, config, enum) IN
         IF updated.raised # "" THEN updated
         ELSE Returned(RootModule(UpdateFromSpecialDirs(updated.value, 1, fs, config, enum),
                                  fs, config, enum))

\* the loop over source_dirs without the test "rel not in core"
RECURSIVE CoreFromSourceDirsUnchecked(_, _, _, _)
CoreFromSourceDirsUnchecked(core, source_dirs, i, fs) ==
    IF i > Len(source_dirs) THEN core
    ELSE LET init_file == Child(source_dirs[i], InitPy) IN
         CoreFromSourceDirsUnchecked(
            IF exists(fs, init_file) THEN Append(core, RelStr(init_file)) ELSE core,
            source_dirs, i + 1, fs)

\* the loop over source_dirs from entry i on
RECURSIVE CoreFromSourceDirs(_, _, _, _)
CoreFromSourceDirs(core, source_dirs, i, fs) ==
    IF i > Len(source_dirs) THEN core
    ELSE LET init_file == Child(source_dirs[i], InitPy)
             rel == RelStr(init_file)
         IN  CoreFromSourceDirs(
                IF exists(fs, init_file) /\ rel \notin Range(core) THEN Append(core, rel) ELSE core,
                source_dirs, i + 1, fs)

detect_core_files(fs, source_dirs, config) ==
    IF config.core_files # <<>> THEN Returned(config.core_files)
    ELSE Returned(CoreFromSourceDirs(
            SelectSeq(CORE_FILE_CANDIDATES, LAMBDA candidate : exists(fs, <<candidate>>)),
            source_dirs, 1, fs))

\* the three tests _walk makes on the name of an entry
walk_ignored(name, config) ==
    \/ name \in Range(config.ignore_dirs)
    \/ \E i \in DOMAIN config.ignore_patterns : fnmatch(name, config.ignore_patterns[i])
    \/ startswith(name, <<".">>)

\* no extension_filter
NoFilter == [given |-> FALSE, extensions |-> <<>>]
Filter(extensions) == [given |-> TRUE, extensions |-> extensions]

\* _walk(directory): the items it adds to files_by_dir, in order.  The entries
\* are sorted by (is_file, name): directories come first, so the files of a
\* directory are added after everything below its subdirectories.
RECURSIVE walk(_, _, _, _, _)
RECURSIVE WalkDirs(_, _, _, _, _, _)
walk(directory, fs, config, extension_filter, enum) ==
    IF ListDenied(fs, directory) THEN <<>>
    ELSE LET entries ==
                SelectSeq(
                    Ascending(Range(iterdir(fs, directory, enum)),
                        {pair \in Entries(fs, directory) \X Entries(fs, directory) :
                            \/ ~is_file(fs, pair[1]) /\ is_file(fs, pair[2])
                            \/ /\ is_file(fs, pair[1]) = is_file(fs, pair[2])
                               /\ StrLess(NameOf(pair[1]), NameOf(pair[2]))}),
                    LAMBDA entry : ~walk_ignored(NameOf(entry), config))
             dirs == SelectSeq(entries, LAMBDA entry : is_dir(fs, entry))
             files ==
                SelectSeq(entries,
                    LAMBDA entry : /\ ~is_dir(fs, entry)
                                   /\ is_file(fs, entry)
                                   /\ (extension_filter.given =>
                                         suffix(entry) \in Range(extension_filter.extensions)))
         IN  WalkDirs(dirs, 1, fs, config, extension_filter, enum)
             \o (IF files # <<>> THEN <<[key |-> RelStr(directory), value |-> files]>> ELSE <<>>)

WalkDirs(dirs, i, fs, config, extension_filter, enum) ==
    IF i > Len(dirs) THEN <<>>
    ELSE walk(dirs[i], fs, config, extension_filter, enum)
         \o WalkDirs(dirs, i + 1, fs, config, extension_filter, enum)

discover_all_files(fs, config, extension_filter, enum) ==
    Returned(walk(Root, fs, config, extension_filter, enum))

(***************************************************************************)
(* Inputs of the content scanner                                           *)
(***************************************************************************)

\* the longest content scanned, in lines
MaxLines == 2

AlphaNum20 == <<"a", "b", "c", "d", "e", "f", "g", "h", "i", "j", "0", "1", "2", "3", "4", "5", "6", "7", "8", "9">>

\* the lines a scanned content is made of
LinePalette == <<
    \* blank after trimming
    <<" ", " ", " ">>,
    \* a pure comment, with a token the fallback would accept
    <<"#", " ">> \o AlphaNum20,
    \* a comment that holds an assignment
    <<"#", " ", "p", "a", "s", "s", "w", "o", "r", "d", "=", "a", "b", "c", "d", "e", "f", "g", "h", "1">>,
    \* nothing but an AWS access key id
    <<"A", "K", "I", "A", "A", "B", "C", "D", "E", "F", "G", "H", "I", "J", "K", "L", "M", "N", "O", "P">>,
    \* a GitHub token assigned to "token": two patterns hit
    <<" ", " ", " ", " ", "t", "o", "k", "e", "n", " ", "=", " ", "g", "h", "p", "_">> \o Cycle(<<"a", "1", "b", "2">>, 36),
    \* 85 characters, 75 of them after trimming
    Times(" ", 10) \o <<"p", "a", "s", "s", "w", "o", "r", "d", " ", "=", " ", "h", "u", "n", "t", "e", "r", "2", "h", "u", "n", "t", "e", "r", "2">> \o Times("x", 50),
    \* 85 characters after trimming
    <<"p", "a", "s", "s", "w", "o", "r", "d", " ", "=", " ", "h", "u", "n", "t", "e", "r", "2", "h", "u", "n", "t", "e", "r", "2">> \o Times("x", 60),
    \* nothing but a token of 20 different characters
    AlphaNum20,
    \* two tokens the fallback accepts
    <<"k", "e", "y", " ">> \o AlphaNum20 \o <<" ", "z", "y", "x", "w", "v", "u", "t", "s", "r", "q", "9", "8", "7", "6", "5", "4", "3", "2", "1", "0">>,
    \* 20 identical characters
    Times("a", 20),
    \* 20 characters, 16 of them different: entropy below 4.0
    <<"a", "b", "c", "d", "e", "f", "g", "h", "i", "j", "0", "1", "2", "3", "4", "5", "a", "b", "c", "d">>,
    \* 32 characters, 16 different ones twice each: entropy 4.0
    <<"a", "a", "b", "b", "c", "c", "d", "d", "e", "e", "f", "f", "g", "g", "h", "h", "0", "0", "1", "1", "2", "2", "3", "3", "4", "4", "5", "5", "6", "6", "7", "7">>,
    \* 19 characters between quotes and brackets
    <<"(", "\"", "a", "b", "c", "d", "e", "f", "g", "h", "i", "0", "1", "2", "3", "4", "5", "6", "7", "8", "9", "\"", ")", ";">>,
    \* a token of 20 letters, no digit
    <<"a", "b", "c", "d", "e", "f", "g", "h", "i", "j", "k", "l", "m", "n", "o", "p", "q", "r", "s", "t">>,
    \* a fallback finding on a line of more than 80 characters
    AlphaNum20 \o <<" ">> \o Times("y", 70),
    \* a password assignment whose value the fallback would accept too
    <<"p", "a", "s", "s", "w", "o", "r", "d", " ", "=", " ">> \o AlphaNum20,
    \* plain code
    <<"x", " ", "=", " ", "1">>
>>


(***************************************************************************)
(* Inputs of the batch scanner: the paths a batch lists and what each      *)
(* file holds                                                              *)
(***************************************************************************)

MaxBatch == 2

BatchPalette == <<<<"c", "o", "n", "f", "i", "g", "/", "s", "e", "c", "r", "e", "t", "s", ".", "y", "a", "m", "l">>, <<"k", "e", "y", "s", "/", "c", "r", "e", "d", "e", "n", "t", "i", "a", "l", "s", ".", "k", "e", "y">>, <<"a", "p", "p", "/", "s", "e", "t", "t", "i", "n", "g", "s", ".", "p", "y">>>>

\* what a file holds, by its path
FileContent(filepath) ==
    CASE filepath = <<"c", "o", "n", "f", "i", "g", "/", "s", "e", "c", "r", "e", "t", "s", ".", "y", "a", "m", "l">> ->
            <<"p", "a", "s", "s", "w", "o", "r", "d", " ", "=", " ">> \o AlphaNum20 \o <<"\n">> \o <<"x", " ", "=", " ", "1">> \o <<"\n">> \o
            <<"t", "o", "k", "e", "n", " ", "=", " ", "g", "h", "p", "_">> \o Cycle(<<"a", "1", "b", "2">>, 36)
      [] filepath = <<"a", "p", "p", "/", "s", "e", "t", "t", "i", "n", "g", "s", ".", "p", "y">> -> <<"x", " ", "=", " ", "1">> \o <<"\n">> \o AlphaNum20 \o <<"\n">>
      [] filepath = <<"p", "k", "g", "/", "c", "o", "r", "e", ".", "p", "y">> -> <<"p", "a", "s", "s", "w", "o", "r", "d", " ", "=", " ">> \o AlphaNum20 \o <<"\n">>
      [] filepath = <<"t", "e", "s", "t", "s", "/", "t", ".", "p", "y">> -> AlphaNum20
      [] filepath = <<"m", "a", "i", "n", ".", "p", "y">> -> <<"A", "K", "I", "A", "A", "B", "C", "D", "E", "F", "G", "H", "I", "J", "K", "L", "M", "N", "O", "P">>
      [] OTHER -> <<"x", " ", "=", " ", "1">> \o <<"\n">>

(***************************************************************************)
(* Inputs of discovery: the files a project tree may hold                  *)
(***************************************************************************)

MaxFiles == 3

FileUniverse ==
    {<<<<"p", "k", "g">>, <<"_", "_", "i", "n", "i", "t", "_", "_", ".", "p", "y">>>>,
     <<<<"p", "k", "g">>, <<"c", "o", "r", "e", ".", "p", "y">>>>,
     <<<<"p", "k", "g">>, <<"s", "u", "b">>, <<"x", ".", "p", "y">>>>,
     <<<<"p", "k", "g">>, <<"s", "u", "b">>, <<"v", "e", "n", "v">>, <<"y", ".", "p", "y">>>>,
     <<<<"p", "k", "g">>, <<"b", "u", "i", "l", "d">>, <<"b", ".", "p", "y">>>>,
     <<<<"s", "r", "c">>, <<"l", "i", "b">>, <<"_", "_", "i", "n", "i", "t", "_", "_", ".", "p", "y">>>>,
     <<<<"s", "r", "c">>, <<"l", "i", "b">>, <<"s", "u", "b">>, <<"z", ".", "p", "y">>>>,
     <<<<"s", "r", "c">>, <<"l", "i", "b">>, <<"s", "u", "b">>, <<"d", ".", "e", "g", "g", "-", "i", "n", "f", "o">>, <<"e", ".", "p", "y">>>>,
     <<<<"t", "e", "s", "t", "s">>, <<"t", ".", "p", "y">>>>,
     <<<<"t", "e", "s", "t", "s">>, <<".", "c", "a", "c", "h", "e">>, <<"c", ".", "p", "y">>>>,
     <<<<"v", "e", "n", "v">>, <<"_", "_", "i", "n", "i", "t", "_", "_", ".", "p", "y">>>>,
     <<<<"m", "a", "i", "n", ".", "p", "y">>>>,
     <<<<"s", "e", "t", "u", "p", ".", "p", "y">>>>}

\* the file system holding the files chosen, with the directories they need
Tree(chosen, denied) ==
    [files |-> chosen,
     dirs |-> UNION {Ancestors(p) : p \in chosen},
     unlistable |-> denied]

(***************************************************************************)
(* Inputs of module discovery: packages, and the other files of a tree     *)
(***************************************************************************)

MaxOthers == 2

PackageInits ==
    {<<<<"p", "k", "g">>, <<"_", "_", "i", "n", "i", "t", "_", "_", ".", "p", "y">>>>,
     <<<<"s", "r", "c">>, <<"_", "_", "i", "n", "i", "t", "_", "_", ".", "p", "y">>>>,
     <<<<"s", "r", "c">>, <<"l", "i", "b">>, <<"_", "_", "i", "n", "i", "t", "_", "_", ".", "p", "y">>>>}

OtherFiles ==
    {<<<<"p", "k", "g">>, <<"c", "o", "r", "e", ".", "p", "y">>>>,
     <<<<"p", "k", "g">>, <<"s", "u", "b">>, <<"x", ".", "p", "y">>>>,
     <<<<"p", "k", "g">>, <<"s", "u", "b">>, <<"v", "e", "n", "v">>, <<"y", ".", "p", "y">>>>,
     <<<<"p", "k", "g">>, <<"p", "k", "g">>, <<"q", ".", "p", "y">>>>,
     <<<<"p", "k", "g">>, <<"a", "s", "s", "e", "t", "s">>, <<"a", ".", "j", "s", "o", "n">>>>,
     <<<<"s", "r", "c">>, <<"l", "i", "b">>, <<"s", "u", "b">>, <<"z", ".", "p", "y">>>>,
     <<<<"s", "r", "c">>, <<"l", "i", "b">>, <<"t", "e", "s", "t", "s">>, <<"s", ".", "p", "y">>>>,
     <<<<"t", "e", "s", "t", "s">>, <<"t", ".", "p", "y">>>>,
     <<<<"t", "e", "s", "t">>, <<"a", ".", "p", "y">>>>,
     <<<<"s", "c", "r", "i", "p", "t", "s">>, <<"r", "u", "n", ".", "p", "y">>>>,
     <<<<"d", "o", "c", "s">>, <<"d", ".", "p", "y">>>>,
     <<<<"m", "a", "i", "n", ".", "p", "y">>>>,
     <<<<"s", "e", "t", "u", "p", ".", "p", "y">>>>,
     <<<<"R", "E", "A", "D", "M", "E", ".", "m", "d">>>>,
     <<<<".", ".">>, <<"o", "u", "t", "s", "i", "d", "e">>, <<"w", ".", "p", "y">>>>}

\* the configurations of module discovery: the defaults, scripts excluded,
\* the root itself configured as the source directory, a source directory
\* outside the root
TreeConfigs ==
    {DEFAULT_CONFIG,
     [DEFAULT_CONFIG EXCEPT !.ignore_dirs = Append(@, <<"s", "c", "r", "i", "p", "t", "s">>)],
     [DEFAULT_CONFIG EXCEPT !.source_dirs = <<<<".">>>>],
     [DEFAULT_CONFIG EXCEPT !.source_dirs = <<<<".", ".", "/", "o", "u", "t", "s", "i", "d", "e">>>>]}

(***************************************************************************)
(* Inputs of source-directory and core-file detection                      *)
(***************************************************************************)

SourceDirUniverse ==
    {<<<<"s", "r", "c">>, <<"a", "p", "p">>, <<"_", "_", "i", "n", "i", "t", "_", "_", ".", "p", "y">>>>,
     <<<<"s", "r", "c">>, <<"l", "i", "b">>, <<"_", "_", "i", "n", "i", "t", "_", "_", ".", "p", "y">>>>,
     <<<<"s", "r", "c">>, <<"d", "a", "t", "a">>, <<"d", ".", "p", "y">>>>,
     <<<<"s", "r", "c">>, <<"v", "e", "n", "v">>, <<"_", "_", "i", "n", "i", "t", "_", "_", ".", "p", "y">>>>,
     <<<<"s", "r", "c">>, <<"_", "_", "i", "n", "i", "t", "_", "_", ".", "p", "y">>>>,
     <<<<"p", "k", "g">>, <<"_", "_", "i", "n", "i", "t", "_", "_", ".", "p", "y">>>>,
     <<<<"a", "p", "i">>, <<"_", "_", "i", "n", "i", "t", "_", "_", ".", "p", "y">>>>,
     <<<<"v", "e", "n", "v">>, <<"_", "_", "i", "n", "i", "t", "_", "_", ".", "p", "y">>>>,
     <<<<"d", "o", "c", "s">>, <<"d", ".", "p", "y">>>>,
     <<<<"s", "e", "t", "u", "p", ".", "p", "y">>>>,
     <<<<"R", "E", "A", "D", "M", "E", ".", "m", "d">>>>}

\* the defaults, a source_dirs override (a directory twice, a missing entry,
\* a file) and a core_files override (a path twice, a missing file)
OverrideConfigs ==
    {DEFAULT_CONFIG,
     [DEFAULT_CONFIG EXCEPT !.source_dirs = <<<<"p", "k", "g">>, <<"m", "i", "s", "s", "i", "n", "g">>, <<"s", "r", "c", "/", "l", "i", "b">>, <<"s", "e", "t", "u", "p", ".", "p", "y">>, <<"p", "k", "g">>>>],
     [DEFAULT_CONFIG EXCEPT !.core_files = <<<<"s", "e", "t", "u", "p", ".", "p", "y">>, <<"n", "o", "p", "e", ".", "t", "x", "t">>, <<"s", "e", "t", "u", "p", ".", "p", "y">>>>]}

(***************************************************************************)
(* get_git_changed_files                                                   *)
(***************************************************************************)

\* str.endswith(suffix)
endswith(s, ending) ==
    Len(s) >= Len(ending) /\ SubSeq(s, Len(s) - Len(ending) + 1, Len(s)) = ending

\* subprocess.run(["git", ...], check=True, cwd=root) for the three commands
\* of get_git_changed_files: FileNotFoundError when there is no git
\* executable, CalledProcessError when git exits non-zero (no repository; for
\* "diff HEAD" also a repository without a commit), else the text git prints:
\* one path per line, in rising order
git_run(git, command) ==
    LET paths == IF command = "ls-files --others" THEN git.untracked ELSE git.modified
        listed == Ascending(paths, {pair \in paths \X paths : StrLess(pair[1], pair[2])})
        stdout == IF listed = <<>> THEN <<>> ELSE Join(listed, <<"\n">>) \o <<"\n">>
    IN  IF git.state = "no git" THEN Raised("FileNotFoundError")
        ELSE IF git.state = "no repository" THEN Raised("CalledProcessError")
        ELSE IF git.state = "no commit" /\ command = "diff HEAD" THEN Raised("CalledProcessError")
        ELSE Returned(stdout)

get_git_changed_files(git, extensions) ==
    LET head == git_run(git, "diff HEAD")
        cached == git_run(git, "diff --cached")
        others == git_run(git, "ls-files --others")
        \* the first try statement catches CalledProcessError alone
        escaped == IF head.raised \notin {"", "CalledProcessError"} THEN head.raised ELSE ""
        first == IF head.raised = "" THEN Pieces(strip(head.value), {"\n"})
                 ELSE IF cached.raised = "" THEN Pieces(strip(cached.value), {"\n"})
                 ELSE <<>>
        changed == first \o
                   (IF others.raised = "" THEN Pieces(strip(others.value), {"\n"}) ELSE <<>>)
        filtered == SelectSeq(changed,
                        LAMBDA f : f # <<>> /\ \E e \in extensions : endswith(f, e))
        unique == SelectSeq([i \in DOMAIN filtered |->
                                IF \E j \in 1..(i - 1) : filtered[j] = filtered[i]
                                THEN <<>> ELSE filtered[i]],
                            LAMBDA f : f # <<>>)
    IN  IF escaped # "" THEN Raised(escaped) ELSE Returned(unique)

(***************************************************************************)
(* Inputs of get_git_changed_files: whether there is git, a repository, a  *)
(* commit, and the paths git would report                                  *)
(***************************************************************************)

MaxChanged == 2

GitStates == {"no git", "no repository", "no commit", "repository"}

ChangedPalette == {<<"a", ".", "p", "y">>, <<"b", ".", "t", "x", "t">>, <<"p", "k", "g", "/", "c", ".", "p", "y">>, <<"x", ".", "p", "y", "c">>}

\* modified: the tracked paths that differ from HEAD or are staged;
\* untracked: the paths git does not track and does not ignore
GitEnvironments ==
    {g \in [state : GitStates, modified : SUBSET ChangedPalette, untracked : SUBSET ChangedPalette] :
        /\ Cardinality(g.modified) <= MaxChanged
        /\ Cardinality(g.untracked) <= MaxChanged
        /\ g.modified \cap g.untracked = {}}
(***************************************************************************)
(* The export formats: CDATA wrapping and the directory tree.              *)
(***************************************************************************)

\* s.split(sep) for a non-empty sep: the occurrences of sep are taken from
\* left to right and do not overlap
RECURSIVE split_sep(_, _)
split_sep(s, sep) ==
    LET hits == {i \in 1..(Len(s) - Len(sep) + 1) : SubSeq(s, i, i + Len(sep) - 1) = sep}
    IN  IF hits = {} THEN <<s>>
        ELSE <<SubSeq(s, 1, Min(hits) - 1)>> \o
             split_sep(SubSeq(s, Min(hits) + Len(sep), Len(s)), sep)

\* cdata_wrap without the split: the content between one pair of markers
cdata_wrap_unsplit(content) == <<"<", "!", "[", "C", "D", "A", "T", "A", "[">> \o content \o <<"]", "]", ">">>

\* cdata_wrap(content): one CDATA section, or several when the content holds
\* the closing marker
cdata_wrap(content) ==
    IF Len(split_sep(content, <<"]", "]", ">">>)) > 1
    THEN <<"<", "!", "[", "C", "D", "A", "T", "A", "[">> \o Join(split_sep(content, <<"]", "]", ">">>), <<"]", "]", "]", "]", ">", "<", "!", "[", "C", "D", "A", "T", "A", "[", ">">>) \o <<"]", "]", ">">>
    ELSE <<"<", "!", "[", "C", "D", "A", "T", "A", "[">> \o content \o <<"]", "]", ">">>

\* the box-drawing characters of the tree, each written by its code point
\* (a module is ASCII text): connector is "└── " before the last entry of a
\* directory and "├── " before the others
Connector(is_last) ==
    <<IF is_last THEN "U+2514" ELSE "U+251C", "U+2500", "U+2500", " ">>

\* what the entries below one entry are indented by: "    " below the last
\* entry of a directory, "│   " below the others
Extension(is_last) ==
    <<IF is_last THEN " " ELSE "U+2502", " ", " ", " ">>

\* get_directory_tree(root, prefix, max_depth, ignore_dirs, ignore_patterns):
\* the lines of the tree below root, joined by line breaks
RECURSIVE get_directory_tree(_, _, _, _, _, _)
get_directory_tree(fs, root, prefix, max_depth, ignore_dirs, ignore_patterns) ==
    LET listed == Entries(fs, root)
        \* sorted(root.iterdir(), key=lambda x: (x.is_file(), x.name))
        by_key == Ascending(listed,
                      {pair \in listed \X listed :
                          \/ ~is_file(fs, pair[1]) /\ is_file(fs, pair[2])
                          \/ /\ is_file(fs, pair[1]) = is_file(fs, pair[2])
                             /\ StrLess(NameOf(pair[1]), NameOf(pair[2]))})
        items == SelectSeq(by_key, LAMBDA i :
                      /\ NameOf(i) \notin ignore_dirs
                      /\ ~\E p \in DOMAIN ignore_patterns : fnmatch(NameOf(i), ignore_patterns[p])
                      /\ ~startswith(NameOf(i), <<".">>))
        \* the line of the i-th item, and below it the subtree of a directory
        \* if that is not empty
        lines(i) ==
            LET is_last == i = Len(items)
                subtree == IF is_dir(fs, items[i])
                           THEN get_directory_tree(fs, items[i], prefix \o Extension(is_last),
                                                   max_depth - 1, ignore_dirs, ignore_patterns)
                           ELSE <<>>
            IN  prefix \o Connector(is_last) \o NameOf(items[i]) \o
                (IF subtree # <<>> THEN <<"\n">> \o subtree ELSE <<>>)
    IN  IF max_depth = 0 \/ ListDenied(fs, root) THEN <<>>
        ELSE Join([i \in DOMAIN items |-> lines(i)], <<"\n">>)


(***************************************************************************)
(* State                                                                   *)
(***************************************************************************)

VARIABLES
    content,          \* scan_content_for_secrets: the content scanned
    contentPc,        \* "ready" before the call, "done" after it
    contentFindings,  \* the list scan_content_for_secrets returned
    files,            \* scan_files_for_secrets: the batch, a list of paths
    disk,             \* what is at each listed path
    filesPc,          \* "ready" before the call, "done" after it
    filesResult,      \* the outcome of scan_files_for_secrets
    fs,               \* the project tree below the root
    config,           \* the configuration in force
    enum,             \* the order in which the file system lists a directory
    run,              \* 1 in the first run over the tree, 2 in the second
    pc,               \* the call the run makes next
    source_dirs,      \* the outcome of discover_source_dirs
    modules,          \* the outcome of discover_all_modules
    core_files,       \* the outcome of detect_core_files
    all_files,        \* the outcome of discover_all_files
    findings,         \* the outcome of scan_files_for_secrets on the export
    previous,         \* the outcomes of the first run
    git,              \* get_git_changed_files: git and the work tree
    changed,          \* the outcome of get_git_changed_files
    args,             \* main: the parsed command line
    emitted,          \* what the run wrote and read, in order
    selection,        \* unique_files: the files to export
    wrapped,          \* cdata_wrap: what it returned
    tree              \* the outcome of get_directory_tree

contentVars == <<content, contentPc, contentFindings>>
filesVars == <<files, disk, filesPc, filesResult>>
runVars == <<fs, config, enum, run, pc, source_dirs, modules, core_files, all_files,
             findings, previous>>
gitVars == <<git, changed>>
mainVars == <<args, emitted, selection>>
formatVars == <<wrapped, tree>>
vars == <<contentVars, filesVars, runVars, gitVars, mainVars, formatVars>>

\* the outcome of a call not made
NotCalled == [raised |-> "not called", value |-> <<>>]
Called(outcome) == outcome # NotCalled
HasReturned(outcome) == outcome.raised = ""

NoContent == content = <<>> /\ contentPc = "idle" /\ contentFindings = <<>>
NoBatch == files = <<>> /\ disk = <<>> /\ filesPc = "idle" /\ filesResult = NotCalled
NoGit ==
    /\ git = [state |-> "no git", modified |-> {}, untracked |-> {}]
    /\ changed = NotCalled
\* the command line without arguments
NoArguments ==
    [module |-> <<>>, changed |-> FALSE, all |-> FALSE, files |-> <<>>, output |-> <<>>,
     list_modules |-> FALSE, list_files |-> FALSE, ext |-> <<>>, init_config |-> FALSE,
     no_scan |-> FALSE]
NoMain == args = NoArguments /\ emitted = <<>> /\ selection = <<>>
NoFormat == wrapped = NotCalled /\ tree = NotCalled
NoOutcomes ==
    [source_dirs |-> NotCalled, modules |-> NotCalled, core_files |-> NotCalled,
     all_files |-> NotCalled, findings |-> NotCalled]
NoRun ==
    /\ fs = Tree({}, {})
    /\ config = DEFAULT_CONFIG
    /\ enum = "none"
    /\ run = 0
    /\ pc = "idle"
    /\ source_dirs = NotCalled /\ modules = NotCalled /\ core_files = NotCalled
    /\ all_files = NotCalled /\ findings = NotCalled
    /\ previous = NoOutcomes

(***************************************************************************)
(* The content scanner on one content                                      *)
(***************************************************************************)

ScanPath == <<"a", "p", "p", "/", "s", "e", "t", "t", "i", "n", "g", "s", ".", "p", "y">>

InitContent ==
    /\ \E n \in 0..MaxLines :
         \E pick \in [1..n -> DOMAIN LinePalette] :
            content = Join([i \in 1..n |-> LinePalette[pick[i]]], <<"\n">>)
    /\ contentPc = "ready"
    /\ contentFindings = <<>>
    /\ NoBatch /\ NoRun /\ NoGit /\ NoMain /\ NoFormat

\* one call of scan_content_for_secrets(content, filepath)
ScanContent ==
    /\ contentPc = "ready"
    /\ contentFindings' = scan_content_for_secrets(content, ScanPath)
    /\ contentPc' = "done"
    /\ UNCHANGED <<content, filesVars, runVars, gitVars, mainVars, formatVars>>

NextContent == ScanContent

SpecContent == InitContent /\ [][NextContent]_vars

(***************************************************************************)
(* The batch scanner on one batch                                          *)
(***************************************************************************)

InitFiles ==
    /\ \E n \in 0..MaxBatch :
         \E pick \in [1..n -> DOMAIN BatchPalette] :
            files = [i \in 1..n |-> BatchPalette[pick[i]]]
    /\ \E kinds \in [Range(files) -> FileKinds] :
         disk = [filepath \in Range(files) |->
                    [kind |-> kinds[filepath], content |-> FileContent(filepath)]]
    /\ filesPc = "ready"
    /\ filesResult = NotCalled
    /\ NoContent /\ NoRun /\ NoGit /\ NoMain /\ NoFormat

\* one call of scan_files_for_secrets(files, root), under either behaviour
\* of Path.exists()
ScanFiles ==
    /\ filesPc = "ready"
    /\ \E strictExists \in BOOLEAN :
         filesResult' = scan_files_for_secrets(files, disk, strictExists)
    /\ filesPc' = "done"
    /\ UNCHANGED <<files, disk, contentVars, runVars, gitVars, mainVars, formatVars>>

NextFiles == ScanFiles

SpecFiles == InitFiles /\ [][NextFiles]_vars

(***************************************************************************)
(* Two runs of discovery and scanning over one project tree, in the order  *)
(* of main: discover_source_dirs, discover_all_modules, detect_core_files, *)
(* then the file listing and the scan of the export of all modules.  An    *)
(* exception that escapes a call ends the run.                             *)
(***************************************************************************)

Init ==
    /\ \E chosen \in SUBSET FileUniverse :
         /\ Cardinality(chosen) <= MaxFiles
         /\ \E denied \in {{}} \cup {{d} : d \in UNION {Ancestors(p) : p \in chosen}} :
              fs = Tree(chosen, denied)
    /\ config = DEFAULT_CONFIG
    /\ enum \in EnumOrders
    /\ run = 1
    /\ pc = "source_dirs"
    /\ source_dirs = NotCalled /\ modules = NotCalled /\ core_files = NotCalled
    /\ all_files = NotCalled /\ findings = NotCalled
    /\ previous = NoOutcomes
    /\ NoContent /\ NoBatch /\ NoGit /\ NoMain /\ NoFormat

\* where the run goes after a call
After(outcome, next) == IF HasReturned(outcome) THEN next ELSE "done"

\* source_dirs = discover_source_dirs(root, config)
DiscoverSourceDirs ==
    /\ pc = "source_dirs"
    /\ source_dirs' = discover_source_dirs(fs, config, enum)
    /\ pc' = After(source_dirs', "modules")
    /\ UNCHANGED <<fs, config, enum, run, modules, core_files, all_files, findings, previous,
                   contentVars, filesVars, gitVars, mainVars, formatVars>>

\* modules = discover_all_modules(root, config)
DiscoverAllModules ==
    /\ pc = "modules"
    /\ modules' = discover_all_modules(fs, config, enum)
    /\ pc' = After(modules', "core_files")
    /\ UNCHANGED <<fs, config, enum, run, source_dirs, core_files, all_files, findings, previous,
                   contentVars, filesVars, gitVars, mainVars, formatVars>>

\* core_files = detect_core_files(root, source_dirs, config)
DetectCoreFiles ==
    /\ pc = "core_files"
    /\ core_files' = detect_core_files(fs, source_dirs.value, config)
    /\ pc' = After(core_files', "mode")
    /\ UNCHANGED <<fs, config, enum, run, source_dirs, modules, all_files, findings, previous,
                   contentVars, filesVars, gitVars, mainVars, formatVars>>

\* discover_all_files(root, config, extension_filter) of the file listing
DiscoverAllFiles ==
    /\ pc = "mode"
    /\ all_files' = discover_all_files(fs, config, NoFilter, enum)
    /\ pc' = After(all_files', "findings")
    /\ UNCHANGED <<fs, config, enum, run, source_dirs, modules, core_files, findings, previous,
                   contentVars, filesVars, gitVars, mainVars, formatVars>>

\* files_to_export with --all: the core files, then the files of every module
RECURSIVE ModuleValues(_)
ModuleValues(dict) ==
    IF dict = <<>> THEN <<>> ELSE dict[1].value \o ModuleValues(Tail(dict))

\* deduplicate, preserving order
unique_files(files_to_export) ==
    SelectSeq([i \in DOMAIN files_to_export |->
                  IF \E j \in 1..(i - 1) : files_to_export[j] = files_to_export[i]
                  THEN <<>> ELSE files_to_export[i]],
              LAMBDA f : f # <<>>)

\* every file of the tree can be read: a directory that cannot be listed
\* still lets its entries be opened by name
DiskOf(paths) ==
    [filepath \in Range(paths) |-> [kind |-> "text", content |-> FileContent(filepath)]]

\* findings = scan_files_for_secrets(unique_files, root)
ScanExport ==
    /\ pc = "findings"
    /\ LET export == unique_files(core_files.value \o ModuleValues(modules.value))
       IN  findings' = scan_files_for_secrets(export, DiskOf(export), TRUE)
    /\ pc' = "done"
    /\ UNCHANGED <<fs, config, enum, run, source_dirs, modules, core_files, all_files, previous,
                   contentVars, filesVars, gitVars, mainVars, formatVars>>

\* the second run over the same tree and configuration, the file system
\* now listing its directories in the other order
Rerun ==
    /\ pc = "done"
    /\ run = 1
    /\ previous' = [source_dirs |-> source_dirs, modules |-> modules,
                    core_files |-> core_files, all_files |-> all_files,
                    findings |-> findings]
    /\ enum' \in EnumOrders \ {enum}
    /\ run' = 2
    /\ pc' = "source_dirs"
    /\ source_dirs' = NotCalled /\ modules' = NotCalled /\ core_files' = NotCalled
    /\ all_files' = NotCalled /\ findings' = NotCalled
    /\ UNCHANGED <<fs, config, contentVars, filesVars, gitVars, mainVars, formatVars>>

\* discover_all_files(root, config, extension_filter) with the configured
\* extensions as the filter
ListFilesByExtension ==
    /\ pc = "mode"
    /\ all_files' = discover_all_files(fs, config, Filter(config.extensions), enum)
    /\ pc' = After(all_files', "findings")
    /\ UNCHANGED <<fs, config, enum, run, source_dirs, modules, core_files, findings, previous,
                   contentVars, filesVars, gitVars, mainVars, formatVars>>

Next ==
    \/ DiscoverSourceDirs
    \/ DiscoverAllModules
    \/ DetectCoreFiles
    \/ DiscoverAllFiles
    \/ ScanExport
    \/ Rerun

Spec == Init /\ [][Next]_vars

(***************************************************************************)
(* One run of module discovery and of the file listing over a tree of      *)
(* packages and other files, every directory readable                      *)
(***************************************************************************)

NoOutcomeYet ==
    /\ run = 1
    /\ pc = "source_dirs"
    /\ source_dirs = NotCalled /\ modules = NotCalled /\ core_files = NotCalled
    /\ all_files = NotCalled /\ findings = NotCalled
    /\ previous = NoOutcomes

InitTrees ==
    /\ \E packages \in SUBSET PackageInits :
         \E others \in SUBSET OtherFiles :
            /\ Cardinality(others) <= MaxOthers
            /\ fs = Tree(packages \cup others, {})
    /\ config \in TreeConfigs
    /\ enum \in EnumOrders
    /\ NoOutcomeYet
    /\ NoContent /\ NoBatch /\ NoGit /\ NoMain /\ NoFormat

NextTrees ==
    \/ DiscoverSourceDirs
    \/ DiscoverAllModules
    \/ DetectCoreFiles
    \/ ListFilesByExtension

SpecTrees == InitTrees /\ [][NextTrees]_vars

(***************************************************************************)
(* One run of source-directory and core-file detection, with and without   *)
(* overrides in the configuration                                          *)
(***************************************************************************)

InitSourceDirs ==
    /\ \E chosen \in SUBSET SourceDirUniverse :
         /\ Cardinality(chosen) <= MaxFiles
         /\ fs = Tree(chosen, {})
    /\ config \in OverrideConfigs
    /\ enum \in EnumOrders
    /\ NoOutcomeYet
    /\ NoContent /\ NoBatch /\ NoGit /\ NoMain /\ NoFormat

NextSourceDirs ==
    \/ DiscoverSourceDirs
    \/ DiscoverAllModules
    \/ DetectCoreFiles

SpecSourceDirs == InitSourceDirs /\ [][NextSourceDirs]_vars

(***************************************************************************)
(* One call of get_git_changed_files                                       *)
(***************************************************************************)

InitGit ==
    /\ git \in GitEnvironments
    /\ changed = NotCalled
    /\ NoContent /\ NoBatch /\ NoRun /\ NoMain /\ NoFormat

\* changed = get_git_changed_files(root, set(config["extensions"]))
GetGitChangedFiles ==
    /\ changed = NotCalled
    /\ changed' = get_git_changed_files(git, Range(config.extensions))
    /\ UNCHANGED <<git, contentVars, filesVars, runVars, mainVars, formatVars>>

NextGit == GetGitChangedFiles

SpecGit == InitGit /\ [][NextGit]_vars

(***************************************************************************)
(* main: one run of the command line, from the detection of the project    *)
(* structure to the export.  pc ends at "returned" (exit status 0), at     *)
(* "exit 1" (sys.exit(1)) or at "done" with the exception that escaped.    *)
(***************************************************************************)

MaxRequested == 2

\* the module names a command line may request, the files it may add, the
\* output file it may name
RequestedNames == {<<"p", "k", "g">>, <<"t", "e", "s", "t", "s">>, <<"p", "k">>}
Requests == UNION {[1..n -> RequestedNames] : n \in 1..MaxRequested}

\* the command lines of the runs: --module, --changed and --all exclude each
\* other (argparse); a run that lists or writes the configuration takes no
\* export options
MainArguments ==
    {a \in [module : Requests \cup {<<>>}, changed : BOOLEAN, all : BOOLEAN,
            files : {<<>>, <<<<"s", "e", "t", "u", "p", ".", "p", "y">>>>}, output : {<<>>, <<"o", "u", "t", ".", "x", "m", "l">>},
            list_modules : BOOLEAN, list_files : BOOLEAN, ext : {<<>>, <<<<"p", "y">>>>},
            init_config : BOOLEAN, no_scan : BOOLEAN] :
        /\ Cardinality({m \in {"module", "changed", "all"} :
                          \/ m = "module" /\ a.module # <<>>
                          \/ m = "changed" /\ a.changed
                          \/ m = "all" /\ a.all}) <= 1
        /\ Cardinality({f \in {"m", "f", "c"} :
                          \/ f = "m" /\ a.list_modules
                          \/ f = "f" /\ a.list_files
                          \/ f = "c" /\ a.init_config}) <= 1
        /\ (a.list_modules \/ a.list_files \/ a.init_config) =>
              /\ a.files = <<>> /\ a.output = <<>> /\ ~a.no_scan /\ ~a.all /\ ~a.changed
              /\ Len(a.module) <= 1
        /\ (a.ext # <<>>) => (a.files = <<>> /\ a.output = <<>> /\ ~a.no_scan)}

\* the project trees of the runs; in the last one src cannot be listed
MainTrees ==
    {Tree({}, {}),
     Tree({<<<<"p", "k", "g">>, <<"_", "_", "i", "n", "i", "t", "_", "_", ".", "p", "y">>>>, <<<<"p", "k", "g">>, <<"c", "o", "r", "e", ".", "p", "y">>>>, <<<<"s", "e", "t", "u", "p", ".", "p", "y">>>>}, {}),
     Tree({<<<<"p", "k", "g">>, <<"_", "_", "i", "n", "i", "t", "_", "_", ".", "p", "y">>>>, <<<<"t", "e", "s", "t", "s">>, <<"t", ".", "p", "y">>>>}, {}),
     Tree({<<<<"p", "k", "g">>, <<"_", "_", "i", "n", "i", "t", "_", "_", ".", "p", "y">>>>, <<<<"m", "a", "i", "n", ".", "p", "y">>>>, <<<<".", "s", "c", "r", "y", ".", "t", "o", "m", "l">>>>}, {}),
     Tree({<<<<"s", "r", "c">>, <<"l", "i", "b">>, <<"_", "_", "i", "n", "i", "t", "_", "_", ".", "p", "y">>>>}, {<<<<"s", "r", "c">>>>})}

\* what the user types at a prompt
Answers == {<<"y">>, <<"Y", "E", "S">>, <<"Y", "e", "s">>, <<"n">>, <<" ", "y">>, <<"y", "e", "s", " ", "p", "l", "e", "a", "s", "e">>, <<>>}

\* one thing the run writes (to "stdout", "stderr" or the output "file") or
\* reads (from "stdin"), with the names or paths it carries
Emitted(to, what, data) == [to |-> to, what |-> what, data |-> data]

\* an answer that begins with "y" or "Y"
AgreesByFirstLetter(answer) == answer # <<>> /\ answer[1] \in {"y", "Y"}

\* answer.lower() in ("y", "yes")
Agrees(answer) ==
    [i \in DOMAIN answer |-> IF answer[i] \in Uppers THEN LowerTable[answer[i]] ELSE answer[i]]
        \in {<<"y">>, <<"y", "e", "s">>}

\* sorted(names) for a set of str
sorted_names(names) ==
    Ascending(names, {pair \in names \X names : StrLess(pair[1], pair[2])})

\* "--ext has no effect without --list-files", on stderr
ExtWarning ==
    IF args.ext # <<>> /\ ~args.list_files
    THEN <<Emitted("stderr", "Warning: --ext has no effect", <<>>)>>
    ELSE <<>>

\* the loop over args.module from entry i on, skipping a name that is not a
\* key of modules
RECURSIVE ExtendFromModulesFound(_, _, _, _)
ExtendFromModulesFound(files_to_export, module, i, all_modules) ==
    IF i > Len(module) THEN [missing |-> <<>>, files |-> files_to_export]
    ELSE ExtendFromModulesFound(
            IF HasKey(all_modules, module[i])
            THEN files_to_export \o
                 all_modules[CHOOSE k \in DOMAIN all_modules : all_modules[k].key = module[i]].value
            ELSE files_to_export,
            module, i + 1, all_modules)

\* the loop over args.module from entry i on: the files to export, or the
\* first name that is not a key of modules
RECURSIVE ExtendFromModules(_, _, _, _)
ExtendFromModules(files_to_export, module, i, all_modules) ==
    IF i > Len(module) THEN [missing |-> <<>>, files |-> files_to_export]
    ELSE IF HasKey(all_modules, module[i])
         THEN ExtendFromModules(
                files_to_export \o
                all_modules[CHOOSE k \in DOMAIN all_modules : all_modules[k].key = module[i]].value,
                module, i + 1, all_modules)
         ELSE [missing |-> module[i], files |-> <<>>]

\* what is at each path of the export: a file of the tree, a directory, or
\* nothing
DiskFor(paths) ==
    [filepath \in Range(paths) |->
        IF is_file(fs, PathOf(filepath))
        THEN [kind |-> "text", content |-> FileContent(filepath)]
        ELSE IF is_dir(fs, PathOf(filepath))
        THEN [kind |-> "directory", content |-> <<>>]
        ELSE [kind |-> "missing", content |-> <<>>]]

InitMain ==
    /\ fs \in MainTrees
    /\ config = DEFAULT_CONFIG
    /\ enum = "desc"
    /\ args \in MainArguments
    /\ git \in {g \in GitEnvironments :
                  \/ g = [state |-> "no git", modified |-> {}, untracked |-> {}]
                  \/ args.changed /\ g.untracked = {} /\ g.state \in {"no repository", "repository"}}
    /\ changed = NotCalled
    /\ emitted = <<>>
    /\ selection = <<>>
    /\ NoOutcomeYet
    /\ NoContent /\ NoBatch /\ NoFormat

\* --init-config: write .scry.toml, after a prompt if it is there already
InitConfig ==
    /\ pc = "mode"
    /\ args.init_config
    /\ LET config_path == <<<<".", "s", "c", "r", "y", ".", "t", "o", "m", "l">>>>
           prompt == Emitted("stdout", "already exists. Overwrite? [y/N]", <<>>)
           report == <<Emitted("stdout", "Generated configuration", <<>>),
                       Emitted("stdout", "Discovered module(s)",
                               sorted_names({modules.value[i].key : i \in DOMAIN modules.value}))>>
           written == [fs EXCEPT !.files = @ \cup {config_path}]
       IN  IF exists(fs, config_path)
           THEN \E answer \in Answers :
                  IF Agrees(answer)
                  THEN /\ fs' = written
                       /\ emitted' = emitted \o <<prompt, Emitted("stdin", "answer", <<answer>>)>>
                                             \o report
                  ELSE /\ fs' = fs
                       /\ emitted' = emitted \o <<prompt, Emitted("stdin", "answer", <<answer>>),
                                                  Emitted("stdout", "Aborted.", <<>>)>>
           ELSE /\ fs' = written
                /\ emitted' = emitted \o report
    /\ pc' = "returned"
    /\ UNCHANGED <<config, enum, run, source_dirs, modules, core_files, all_files, findings,
                   previous, args, selection, contentVars, filesVars, gitVars, formatVars>>

\* --list-files: print_file_listing(root, config, project_name, args.ext),
\* an extension of --ext given its "." first
ListFiles ==
    /\ pc = "mode"
    /\ ~args.init_config
    /\ args.list_files
    /\ LET ext == [i \in DOMAIN args.ext |->
                     IF startswith(args.ext[i], <<".">>) THEN args.ext[i] ELSE <<".">> \o args.ext[i]]
       IN  all_files' = discover_all_files(fs, config,
                            IF ext # <<>> THEN Filter(ext) ELSE NoFilter, enum)
    /\ emitted' = IF HasReturned(all_files')
                  THEN Append(emitted,
                         IF all_files'.value = <<>>
                         THEN Emitted("stdout", "No files found", <<>>)
                         ELSE Emitted("stdout", "file listing", <<>>))
                  ELSE emitted
    /\ pc' = After(all_files', "returned")
    /\ UNCHANGED <<fs, config, enum, run, source_dirs, modules, core_files, findings,
                   previous, args, selection, contentVars, filesVars, gitVars, formatVars>>

\* --list-modules: print the project, its sources, its core files and its
\* modules by name
ListModules ==
    /\ pc = "mode"
    /\ ~args.init_config /\ ~args.list_files
    /\ args.list_modules
    /\ emitted' = emitted \o ExtWarning \o
                  <<Emitted("stdout", "Discovered modules",
                            sorted_names({modules.value[i].key : i \in DOMAIN modules.value}))>>
    /\ pc' = "returned"
    /\ UNCHANGED <<fs, config, enum, run, source_dirs, modules, core_files, all_files, findings,
                   previous, args, selection, contentVars, filesVars, gitVars, formatVars>>

\* determine the files to export: --changed, or the core files with the
\* modules of --module, of --all or the default module; then --files; then
\* without duplicates
SelectFiles ==
    /\ pc = "mode"
    /\ ~args.init_config /\ ~args.list_files /\ ~args.list_modules
    /\ LET git_changed == IF args.changed
                          THEN get_git_changed_files(git, Range(config.extensions))
                          ELSE changed
           requested == ExtendFromModules(core_files.value, args.module, 1, modules.value)
           default_mod == config.default_module
           files_to_export ==
               (IF args.changed THEN git_changed.value
                ELSE IF args.module # <<>> THEN requested.files
                ELSE IF args.all THEN core_files.value \o ModuleValues(modules.value)
                ELSE IF default_mod # <<>> /\ HasKey(modules.value, default_mod)
                THEN core_files.value \o
                     modules.value[CHOOSE k \in DOMAIN modules.value :
                                      modules.value[k].key = default_mod].value
                ELSE core_files.value)
               \o args.files
           unique == unique_files(files_to_export)
           no_changes == IF args.changed /\ git_changed.value = <<>>
                         THEN <<Emitted("stderr", "No changed files detected.", <<>>)>>
                         ELSE <<>>
       IN  /\ changed' = git_changed
           /\ IF git_changed.raised \notin {"", "not called"}
              THEN /\ pc' = "done"
                   /\ emitted' = emitted \o ExtWarning
                   /\ selection' = selection
              ELSE IF ~args.changed /\ requested.missing # <<>>
              THEN /\ pc' = "exit 1"
                   /\ emitted' = emitted \o ExtWarning \o
                         <<Emitted("stderr", "Error: Module not found.", <<requested.missing>>),
                           Emitted("stderr", "Available",
                                   sorted_names({modules.value[i].key : i \in DOMAIN modules.value}))>>
                   /\ selection' = selection
              ELSE IF unique = <<>>
              THEN /\ pc' = "returned"
                   /\ emitted' = emitted \o ExtWarning \o no_changes \o
                         <<Emitted("stderr", "No files to export.", <<>>)>>
                   /\ selection' = selection
              ELSE /\ pc' = IF args.no_scan THEN "output" ELSE "scan"
                   /\ emitted' = emitted \o ExtWarning \o no_changes
                   /\ selection' = unique
    /\ UNCHANGED <<fs, config, enum, run, source_dirs, modules, core_files, all_files, findings,
                   previous, git, args, contentVars, filesVars, formatVars>>

\* secret scanning: the warnings on stderr, then the prompt if an output
\* file was asked for (answered, or met by the end of the input), the hint if
\* not
ScanSelected ==
    /\ pc = "scan"
    /\ findings' = scan_files_for_secrets(selection, DiskFor(selection), TRUE)
    /\ LET warnings == Emitted("stderr", "POTENTIAL SECRETS DETECTED",
                               [i \in DOMAIN findings'.value |-> findings'.value[i].filepath])
           prompt == Emitted("stdout", "Secrets detected. Continue with export? [y/N]", <<>>)
       IN  IF ~HasReturned(findings')
           THEN pc' = "done" /\ emitted' = emitted
           ELSE IF findings'.value = <<>>
           THEN pc' = "output" /\ emitted' = emitted
           ELSE IF args.output # <<>>
           THEN \/ \E answer \in Answers :
                     IF Agrees(answer)
                     THEN /\ pc' = "output"
                          /\ emitted' = emitted \o
                                <<warnings, prompt, Emitted("stdin", "answer", <<answer>>)>>
                     ELSE /\ pc' = "exit 1"
                          /\ emitted' = emitted \o
                                <<warnings, prompt, Emitted("stdin", "answer", <<answer>>),
                                  Emitted("stdout", "Export aborted.", <<>>)>>
                \* the standard input is at its end: input() raises EOFError
                \/ /\ pc' = "done"
                   /\ emitted' = emitted \o
                         <<warnings, prompt, Emitted("stdin", "EOFError", <<>>)>>
           ELSE /\ pc' = "output"
                /\ emitted' = emitted \o
                      <<warnings, Emitted("stderr", "Hint: Use --no-scan", <<>>)>>
    /\ UNCHANGED <<fs, config, enum, run, source_dirs, modules, core_files, all_files,
                   previous, args, selection, contentVars, filesVars, gitVars, formatVars>>

\* generate and emit the output: into the output file, or on stdout
EmitOutput ==
    /\ pc = "output"
    /\ emitted' = emitted \o
          (IF args.output # <<>>
           THEN <<Emitted("file", "export", selection),
                  Emitted("stdout", "Exported file(s)", selection)>>
           ELSE <<Emitted("stdout", "export", selection)>>)
    /\ pc' = "returned"
    /\ UNCHANGED <<fs, config, enum, run, source_dirs, modules, core_files, all_files, findings,
                   previous, args, selection, contentVars, filesVars, gitVars, formatVars>>

NextMain ==
    \/ DiscoverSourceDirs
    \/ DiscoverAllModules
    \/ DetectCoreFiles
    \/ InitConfig
    \/ ListFiles
    \/ ListModules
    \/ SelectFiles
    \/ ScanSelected
    \/ EmitOutput

SpecMain == InitMain /\ [][NextMain]_vars
(***************************************************************************)
(* cdata_wrap on its own: one call on one content.                         *)
(***************************************************************************)

MaxContent == 6

\* the characters of the contents: those of the markers and two others
ContentAlphabet == {"]", ">", "[", "a"}

\* the contents wrapped: every string over the alphabet up to the bound, and
\* some that hold whole markers
ContentPalette ==
    UNION {[1..n -> ContentAlphabet] : n \in 0..MaxContent}
    \cup {<<"<", "!", "[", "C", "D", "A", "T", "A", "[", "x", "]", "]", ">">>, <<"a", "]", "]", ">", "b", "]", "]", ">", "c", "]", "]">>, <<"]", "]", ">", "]", "]", ">">>, <<"x", " ", "=", " ", "d", "[", "k", "[", "0", "]", "]", ">", " ", "1">>, <<"<", "!", "[", "C", "D", "A", "T", "A", "[">>}

InitCdata ==
    /\ content \in ContentPalette
    /\ contentPc = "ready"
    /\ contentFindings = <<>>
    /\ wrapped = NotCalled
    /\ tree = NotCalled
    /\ NoBatch /\ NoRun /\ NoGit /\ NoMain

\* wrapped = cdata_wrap(content)
CdataWrap ==
    /\ contentPc = "ready"
    /\ wrapped' = Returned(cdata_wrap(content))
    /\ contentPc' = "done"
    /\ UNCHANGED <<content, contentFindings, tree, filesVars, runVars, gitVars, mainVars>>

NextCdata == CdataWrap

SpecCdata == InitCdata /\ [][NextCdata]_vars

(***************************************************************************)
(* get_directory_tree on its own: one call on one tree, as format_output   *)
(* makes it: from the root, with an empty prefix, the depth the            *)
(* configuration or --tree-depth gives, and the exclusions configured.     *)
(***************************************************************************)

MaxDepth == 3

\* tree_depth is any integer the configuration file or the command line
\* holds: nothing in load_config or main restricts it
TreeDepths == (0 - 1)..MaxDepth

\* the files of the trees displayed: up to five levels, hidden and excluded
\* names, a directory named after a file's name order
DisplayUniverse ==
    {<<<<"p", "k", "g">>, <<"_", "_", "i", "n", "i", "t", "_", "_", ".", "p", "y">>>>,
     <<<<"p", "k", "g">>, <<"c", "o", "r", "e", ".", "p", "y">>>>,
     <<<<"p", "k", "g">>, <<"s", "u", "b">>, <<"x", ".", "p", "y">>>>,
     <<<<"p", "k", "g">>, <<"s", "u", "b">>, <<"d", "e", "e", "p">>, <<"m", "o", "r", "e">>, <<"y", ".", "p", "y">>>>,
     <<<<"p", "k", "g">>, <<"v", "e", "n", "v">>, <<"v", ".", "p", "y">>>>,
     <<<<"p", "k", "g">>, <<"x", ".", "p", "y", "c">>>>,
     <<<<"t", "e", "s", "t", "s">>, <<"t", ".", "p", "y">>>>,
     <<<<"t", "e", "s", "t", "s">>, <<".", "c", "a", "c", "h", "e">>, <<"c", ".", "p", "y">>>>,
     <<<<"d", ".", "e", "g", "g", "-", "i", "n", "f", "o">>, <<"e", ".", "p", "y">>>>,
     <<<<"m", "a", "i", "n", ".", "p", "y">>>>,
     <<<<"R", "E", "A", "D", "M", "E", ".", "m", "d">>>>,
     <<<<".", "e", "n", "v">>>>}

\* the configurations: the default one and one with exclusions of its own,
\* each with every depth
DisplayConfigs ==
    {[c EXCEPT !.tree_depth = d] :
        c \in {DEFAULT_CONFIG,
               [DEFAULT_CONFIG EXCEPT !.ignore_dirs = Append(@, <<"t", "e", "s", "t", "s">>),
                                      !.ignore_patterns = <<<<"R", "*">>>>]},
        d \in TreeDepths}

InitDirTree ==
    /\ \E chosen \in SUBSET DisplayUniverse :
         /\ Cardinality(chosen) <= MaxFiles
         /\ \E denied \in {{}} \cup {{d} : d \in UNION {Ancestors(p) : p \in chosen}} :
              fs = Tree(chosen, denied)
    /\ config \in DisplayConfigs
    /\ enum = "asc"
    /\ run = 1
    /\ pc = "tree"
    /\ source_dirs = NotCalled /\ modules = NotCalled /\ core_files = NotCalled
    /\ all_files = NotCalled /\ findings = NotCalled
    /\ previous = NoOutcomes
    /\ tree = NotCalled
    /\ wrapped = NotCalled
    /\ NoContent /\ NoBatch /\ NoGit /\ NoMain

\* tree = get_directory_tree(root, max_depth=config.get("tree_depth", 3),
\* ignore_dirs=set(config["ignore_dirs"]), ignore_patterns=config["ignore_patterns"])
GetDirectoryTree ==
    /\ pc = "tree"
    /\ tree' = Returned(get_directory_tree(fs, Root, <<>>, config.tree_depth,
                                           Range(config.ignore_dirs), config.ignore_patterns))
    /\ pc' = "done"
    /\ UNCHANGED <<fs, config, enum, run, source_dirs, modules, core_files, all_files, findings,
                   previous, wrapped, contentVars, filesVars, gitVars, mainVars>>

NextDirTree == GetDirectoryTree

SpecDirTree == InitDirTree /\ [][NextDirTree]_vars

(***************************************************************************)
(* Properties of scan_content_for_secrets                                  *)
(***************************************************************************)

ContentDone == contentPc = "done"

\* the lines of the scanned content, as the scanner numbers them from 1
ContentLines == splitlines(content)

IsEntropyFinding(f) == f.pattern_name = "High-Entropy String"

\* the findings reported for line k, in the order of the returned list
FindingsOfLine(k) == SelectSeq(contentFindings, LAMBDA f : f.line_number = k)
PatternFindingsOfLine(k) == SelectSeq(FindingsOfLine(k), LAMBDA f : ~IsEntropyFinding(f))
EntropyFindingsOfLine(k) == SelectSeq(FindingsOfLine(k), IsEntropyFinding)

\* the names of the entries of SECRET_PATTERNS that match line, in table order
MatchingNames(line) ==
    LET hit(p) == Search(p.regex, line)
        hits == SelectSeq(SECRET_PATTERNS, hit)
    IN  [i \in DOMAIN hits |-> hits[i].name]

EndsWithEllipsis(s) == Len(s) >= 3 /\ SubSeq(s, Len(s) - 2, Len(s)) = <<".", ".", ".">>

\* every finding names a line of the content
FindingsNameLines ==
    \A i \in DOMAIN contentFindings : contentFindings[i].line_number \in DOMAIN ContentLines

\* C3 as stated: the preview of every content finding has at most 80
\* characters, and ends with "..." whenever the source line, as it stands in
\* the file, has more than 80 characters.
C3_RawLineEllipsis ==
    ContentDone =>
        \A i \in DOMAIN contentFindings :
            LET f == contentFindings[i] IN
            /\ Len(f.line_preview) <= 80
            /\ Len(ContentLines[f.line_number]) > 80 => EndsWithEllipsis(f.line_preview)

\* C3 amended: the preview of every content finding has at most 80
\* characters, and ends with "..." whenever the line has more than 80
\* characters after trimming the whitespace around it.
C3_RedactionBound ==
    ContentDone =>
        \A i \in DOMAIN contentFindings :
            LET f == contentFindings[i] IN
            /\ Len(f.line_preview) <= 80
            /\ Len(strip(ContentLines[f.line_number])) > 80 => EndsWithEllipsis(f.line_preview)

\* a pattern finding and an entropy finding were each cut to 77 characters and "..."
C3_Witness ==
    /\ ContentDone
    /\ \E i \in DOMAIN contentFindings :
         /\ ~IsEntropyFinding(contentFindings[i])
         /\ Len(strip(ContentLines[contentFindings[i].line_number])) > 80
         /\ Len(contentFindings[i].line_preview) = 80
    /\ \E i \in DOMAIN contentFindings :
         /\ IsEntropyFinding(contentFindings[i])
         /\ Len(strip(ContentLines[contentFindings[i].line_number])) > 80
         /\ Len(contentFindings[i].line_preview) = 80

\* the text a search of re matches in s: the leftmost match, as long as the
\* greedy quantifiers of the table's expressions make it
MatchedText(re, s) ==
    LET starts == {p \in 1..(Len(s) + 1) : Ends(re.ast, s, {p}, re.ic) # {}}
        p0 == Min(starts)
    IN  SubSeq(s, p0, Max(Ends(re.ast, s, {p0}, re.ic)) - 1)

PatternNamed(name) == CHOOSE p \in Range(SECRET_PATTERNS) : p.name = name

\* the secret a finding is about: the text its pattern matched, or the first
\* token of the line that qualifies for the fallback
SecretOf(f) ==
    LET line == ContentLines[f.line_number] IN
    IF IsEntropyFinding(f)
    THEN LET tokens == split(strip(line))
             k == Min({i \in DOMAIN tokens : Qualifies(Clean(tokens[i]))})
         IN  Clean(tokens[k])
    ELSE MatchedText(PatternNamed(f.pattern_name).regex, line)

\* C4: the preview of a content finding is never the raw secret on its own
\* (the matched text of a pattern finding, the qualifying token of an entropy
\* finding), also for a line of at most 80 characters that is only the secret.
C4_PreviewNeverSecretAlone ==
    ContentDone =>
        \A i \in DOMAIN contentFindings :
            contentFindings[i].line_preview # SecretOf(contentFindings[i])

\* C6: a line that is neither empty after trimming nor a pure comment yields
\* exactly one finding per entry of SECRET_PATTERNS that matches it, in table
\* order, each with the line's 1-based number.
C6_OneFindingPerMatchingPattern ==
    ContentDone =>
        /\ FindingsNameLines
        /\ \A k \in DOMAIN ContentLines :
             ~Skipped(strip(ContentLines[k])) =>
                LET found == PatternFindingsOfLine(k)
                IN  [i \in DOMAIN found |-> found[i].pattern_name] = MatchingNames(ContentLines[k])

\* a line matched two patterns and got two findings
C6_Witness ==
    /\ ContentDone
    /\ \E k \in DOMAIN ContentLines :
         /\ Len(MatchingNames(ContentLines[k])) >= 2
         /\ Len(PatternFindingsOfLine(k)) >= 2

\* the tokens of line k that qualify for the fallback
QualifyingTokens(k) ==
    LET tokens == split(strip(ContentLines[k]))
    IN  {i \in DOMAIN tokens : Qualifies(Clean(tokens[i]))}

\* C7: a line that matched a pattern yields no High-Entropy String finding,
\* and a line that matched none yields at most one, however many of its
\* tokens qualify.
C7_EntropyFallbackExclusiveAndBounded ==
    ContentDone =>
        \A k \in DOMAIN ContentLines :
            /\ PatternFindingsOfLine(k) # <<>> => EntropyFindingsOfLine(k) = <<>>
            /\ Len(EntropyFindingsOfLine(k)) <= 1

\* one line with two qualifying tokens got one entropy finding, and another
\* line that matched a pattern and holds a qualifying token got none
C7_Witness ==
    /\ ContentDone
    /\ \E k \in DOMAIN ContentLines :
         /\ Cardinality(QualifyingTokens(k)) >= 2
         /\ Len(EntropyFindingsOfLine(k)) = 1
    /\ \E k \in DOMAIN ContentLines :
         /\ QualifyingTokens(k) # {}
         /\ PatternFindingsOfLine(k) # <<>>
         /\ EntropyFindingsOfLine(k) = <<>>

\* a token as C8 describes it: 20 characters or more, a digit, a letter, and
\* an entropy of 4.0 bits per character or more
HighEntropyToken(clean) ==
    /\ Len(clean) >= 20
    /\ \E i \in DOMAIN clean : clean[i] \in Digits
    /\ \E i \in DOMAIN clean : clean[i] \in Lowers \cup Uppers
    /\ line_entropy(clean) >= 4000000

AllSame(s) == \A i \in DOMAIN s : s[i] = s[1]

\* C8: a High-Entropy String finding is reported for a line only if one of
\* its whitespace-delimited tokens, stripped of the surrounding delimiters,
\* is a high-entropy token; a line that is one token of identical characters
\* gets none.
C8_EntropyFindingOnlyForQualifyingToken ==
    ContentDone =>
        \A k \in DOMAIN ContentLines :
            LET tokens == split(strip(ContentLines[k])) IN
            /\ EntropyFindingsOfLine(k) # <<>> =>
                 \E i \in DOMAIN tokens : HighEntropyToken(StripChars(tokens[i], TokenDelims))
            /\ (Len(tokens) = 1 /\ AllSame(tokens[1])) => EntropyFindingsOfLine(k) = <<>>

\* an entropy finding was reported, for a token whose entropy is exactly 4.0,
\* next to a line of 20 identical characters that got none
C8_Witness ==
    /\ ContentDone
    /\ \E k \in DOMAIN ContentLines :
         /\ EntropyFindingsOfLine(k) # <<>>
         /\ line_entropy(strip(ContentLines[k])) = 4000000
    /\ \E k \in DOMAIN ContentLines :
         /\ Len(ContentLines[k]) = 20 /\ AllSame(ContentLines[k])
         /\ EntropyFindingsOfLine(k) = <<>>


(***************************************************************************)
(* Claims about the batch scanner                                          *)
(***************************************************************************)

FilesDone == filesPc = "done"

\* C2: scan_files_for_secrets never lets an exception escape: whatever is
\* at each listed path (nothing, a directory, an unreadable or undecodable
\* file, a file removed after the existence check, a file below an
\* unreadable parent), the call returns a list of findings for the batch.
C2_NoExceptionEscapes == FilesDone => HasReturned(filesResult)

\* the number of entries of SENSITIVE_FILE_PATTERNS the bare name matches
FilenameMatches(filepath) ==
    Cardinality({i \in DOMAIN SENSITIVE_FILE_PATTERNS :
                    Match(SENSITIVE_FILE_PATTERNS[i].regex, PathName(filepath))})

\* how often the batch lists the path
Occurrences(filepath) == Cardinality({i \in DOMAIN files : files[i] = filepath})

\* the filename-layer and the content-layer findings reported for a path
FilenameLayer(filepath) ==
    SelectSeq(filesResult.value,
        LAMBDA f : /\ f.filepath = filepath
                   /\ f.line_number = 0
                   /\ f.line_preview = <<"(", "f", "i", "l", "e", "n", "a", "m", "e", " ", "m", "a", "t", "c", "h", ")">>)
ContentLayer(filepath) ==
    SelectSeq(filesResult.value, LAMBDA f : f.filepath = filepath /\ f.line_number > 0)

ContentKinds == {"text", "undecodable", "unreadable", "missing"}

\* C9: the filename layer is independent of the content layer: for every
\* listed file whose bare name matches n filename patterns, the call reports
\* exactly n filename findings (line 0, preview "(filename match)") per
\* listing, whether its content is readable, undecodable, permission-denied
\* or absent; a failed read removes the content findings of that file only.
C9_FilenameLayerIndependent ==
    FilesDone =>
        \A filepath \in Range(files) :
            disk[filepath].kind \in ContentKinds =>
                /\ Len(FilenameLayer(filepath))
                     = FilenameMatches(filepath) * Occurrences(filepath)
                /\ Len(ContentLayer(filepath))
                     = IF disk[filepath].kind = "text"
                       THEN Len(scan_content_for_secrets(disk[filepath].content, filepath))
                              * Occurrences(filepath)
                       ELSE 0

(***************************************************************************)
(* Claims about discovery                                                  *)
(***************************************************************************)

\* the directory segments of a path given as a string
DirSegments(filepath) ==
    LET path == PathOf(filepath) IN SubSeq(path, 1, Len(path) - 1)

NoSegmentExcluded(segments) ==
    \A k \in DOMAIN segments : ~should_ignore(segments[k], config)

\* the file paths stored in the modules of the ModuleMap
ModuleFiles == UNION {Range(modules.value[i].value) : i \in DOMAIN modules.value}
\* the files discover_all_files returned
ListedFiles == UNION {Range(all_files.value[i].value) : i \in DOMAIN all_files.value}

\* C1: exclusion closure: no directory segment of a file path stored in a
\* module of discover_all_modules, or of a file returned by
\* discover_all_files, matches an exclusion rule (member of ignore_dirs,
\* match of an ignore_patterns glob, name starting with "."), at any depth.
C1_ExclusionClosure ==
    /\ HasReturned(modules) =>
         \A filepath \in ModuleFiles : NoSegmentExcluded(DirSegments(filepath))
    /\ HasReturned(all_files) =>
         \A path \in ListedFiles : NoSegmentExcluded(Parent(path))

\* path lies below a directory that cannot be listed
BelowUnlistable(path) == \E d \in fs.unlistable : d \in Ancestors(path)

\* C5: discovery is resilient to unreadable directories: when listing a
\* directory under the root fails with a permission error, the discovery
\* calls raise nothing, leave out the subtree of that directory, and still
\* return every file of its readable siblings.
C5_ResilientToUnreadableDirectories ==
    fs.unlistable # {} =>
        /\ Called(source_dirs) => HasReturned(source_dirs)
        /\ Called(modules) => HasReturned(modules)
        /\ Called(all_files) => HasReturned(all_files)
        /\ HasReturned(modules) =>
             \A filepath \in ModuleFiles : ~BelowUnlistable(PathOf(filepath))
        /\ HasReturned(all_files) =>
             /\ \A path \in ListedFiles : ~BelowUnlistable(path)
             /\ \A path \in fs.files :
                  (~BelowUnlistable(path) /\ NoSegmentExcluded(path)) => path \in ListedFiles

\* C10: determinism: over one tree and one configuration, a second run of
\* discover_all_modules, detect_core_files and scan_files_for_secrets returns
\* what the first returned, order included, although the file system lists
\* its directories in another order.
C10_Determinism ==
    run = 2 =>
        /\ Called(modules) => modules = previous.modules
        /\ Called(core_files) => core_files = previous.core_files
        /\ Called(findings) => findings = previous.findings

\* a second run has ended with two modules, one of two files or more, a core
\* file and a finding: the order of enumeration had something to reorder
C10_Witness ==
    /\ run = 2 /\ pc = "done"
    /\ HasReturned(findings) /\ findings.value # <<>>
    /\ Len(modules.value) >= 2
    /\ \E i \in DOMAIN modules.value : Len(modules.value[i].value) >= 2
    /\ core_files.value # <<>>

(***************************************************************************)
(* Claims about the ModuleMap                                              *)
(***************************************************************************)

\* the path lies under the root
UnderRoot(path) == \A k \in DOMAIN path : path[k] # <<".", ".">>

\* C11: module completeness: in the ModuleMap of discover_all_modules every
\* module has a non-empty file list, and every stored path is relative to
\* the root, names a regular file that exists under the root, and has a
\* suffix of the configured extensions.
C11_ModuleCompleteness ==
    HasReturned(modules) =>
        \A i \in DOMAIN modules.value :
            /\ modules.value[i].value # <<>>
            /\ \A filepath \in Range(modules.value[i].value) :
                 /\ filepath[1] # "/"
                 /\ UnderRoot(PathOf(filepath))
                 /\ is_file(fs, PathOf(filepath))
                 /\ suffix(PathOf(filepath)) \in Range(config.extensions)

\* discover_source_dirs and discover_all_modules have just returned to main
ModulesReturned ==
    pc = "core_files" /\ HasReturned(source_dirs) /\ HasReturned(modules)

\* the assignments all_modules[name] = files of discover_all_modules in the
\* order the code makes them, each with the directory it lists, the source
\* directory it comes from, and whether the auxiliary loop makes it
Contributions ==
    LET FromSource(d) ==
            LET entries == ModuleEntries(d, fs, config, enum) IN
            [i \in DOMAIN entries |->
                [key |-> entries[i].key, value |-> entries[i].value,
                 dir |-> IF Parent(PathOf(entries[i].value[1])) = d
                         THEN d ELSE Child(d, entries[i].key),
                 from |-> d, aux |-> FALSE]]
        RECURSIVE FromSources(_)
        FromSources(i) ==
            IF i > Len(source_dirs.value) THEN <<>>
            ELSE FromSource(source_dirs.value[i]) \o FromSources(i + 1)
        AuxFiles(name) ==
            RelStrs(SelectSeq(sorted(rglob(fs, <<name>>, enum)),
                LAMBDA f : is_file(fs, f) /\ suffix(f) \in Range(config.extensions)))
        aux == SelectSeq([i \in DOMAIN special_dirs |->
                    [key |-> special_dirs[i], value |-> AuxFiles(special_dirs[i]),
                     dir |-> <<special_dirs[i]>>, from |-> Root, aux |-> TRUE]],
                 LAMBDA c : /\ is_dir(fs, c.dir)
                            /\ ~should_ignore(c.key, config)
                            /\ c.value # <<>>)
    IN  FromSources(1) \o aux

\* the last assignment made under the name
LastFor(contribs, name) ==
    contribs[Max({i \in DOMAIN contribs : contribs[i].key = name})]

\* one entry under every assigned name, holding the last list assigned
LastWins(contribs) ==
    /\ \A i, j \in DOMAIN modules.value :
          modules.value[i].key = modules.value[j].key => i = j
    /\ \A i \in DOMAIN contribs :
          \E j \in DOMAIN modules.value :
             /\ modules.value[j].key = contribs[i].key
             /\ modules.value[j].value = LastFor(contribs, contribs[i].key).value

\* an assignment later replaced by the list of another directory
Overwritten(contribs, i) == LastFor(contribs, contribs[i].key).dir # contribs[i].dir

\* the file is also among the files collected for another directory
CollectedElsewhere(contribs, i, filepath) ==
    \E j \in DOMAIN contribs :
        contribs[j].dir # contribs[i].dir /\ filepath \in Range(contribs[j].value)

InSomeModule(filepath) ==
    \E j \in DOMAIN modules.value : filepath \in Range(modules.value[j].value)

\* C12 as stated: on a name collision the ModuleMap holds one entry under
\* the name with exactly the list of the directory processed last, and the
\* files of the earlier directory appear in no module.
C12_OverwriteLastWins ==
    ModulesReturned =>
        LET contribs == Contributions IN
        /\ LastWins(contribs)
        /\ \A i \in DOMAIN contribs :
              Overwritten(contribs, i) =>
                 \A filepath \in Range(contribs[i].value) : ~InSomeModule(filepath)

\* C12 amended: on a name collision the ModuleMap holds one entry under the
\* name with exactly the list of the directory processed last, and a file of
\* the earlier directory appears in no module unless it was also collected
\* for another directory (a source directory inside another listed one).
C12_OverwriteLastWinsUnlessCollectedElsewhere ==
    ModulesReturned =>
        LET contribs == Contributions IN
        /\ LastWins(contribs)
        /\ \A i \in DOMAIN contribs :
              Overwritten(contribs, i) =>
                 \A filepath \in Range(contribs[i].value) :
                    ~CollectedElsewhere(contribs, i, filepath) => ~InSomeModule(filepath)

\* the module "tests" of a source directory is replaced by the root's
\* tests directory, and its files are in no module
C12_Witness ==
    /\ ModulesReturned
    /\ LET contribs == Contributions IN
       \E i \in DOMAIN contribs :
          /\ Overwritten(contribs, i)
          /\ contribs[i].key = <<"t", "e", "s", "t", "s">>
          /\ \A filepath \in Range(contribs[i].value) :
                ~CollectedElsewhere(contribs, i, filepath) /\ ~InSomeModule(filepath)


\* the place of the first assignment made under the name
FirstAt(contribs, name) == Min({i \in DOMAIN contribs : contribs[i].key = name})

\* the place in source_dirs of the source directory
SourceIndex(dir) == Min({k \in DOMAIN source_dirs.value : source_dirs.value[k] = dir})

\* the place in special_dirs of the auxiliary directory
AuxIndex(name) == Min({k \in DOMAIN special_dirs : special_dirs[k] = name})

\* C13 as stated: the ModuleMap yields first the modules contributed by
\* source directories in source-directory discovery order, then the
\* auxiliary-directory modules in the order of the auxiliary list; no
\* auxiliary-directory module precedes a source-directory module, including
\* when names collide.
C13_SourceModulesBeforeAuxModules ==
    ModulesReturned =>
        LET contribs == Contributions
            from(i) == LastFor(contribs, modules.value[i].key)
        IN  contribs # <<>> =>
            \A i, j \in DOMAIN modules.value :
                i < j =>
                    /\ ~(from(i).aux /\ ~from(j).aux)
                    /\ (~from(i).aux /\ ~from(j).aux) =>
                            SourceIndex(from(i).from) <= SourceIndex(from(j).from)
                    /\ (from(i).aux /\ from(j).aux) =>
                            AuxIndex(from(i).key) < AuxIndex(from(j).key)

\* C13 amended: the ModuleMap yields the module names in the order of their
\* first assignment (source directories in discovery order, then the
\* auxiliary list); a name assigned again keeps its place, so an auxiliary
\* module precedes a source-directory module only where it replaced an entry
\* first assigned from a source directory.
C13_KeysInFirstAssignmentOrder ==
    ModulesReturned =>
        LET contribs == Contributions
            from(i) == LastFor(contribs, modules.value[i].key)
        IN  contribs # <<>> =>
            /\ {modules.value[i].key : i \in DOMAIN modules.value}
                  = {contribs[i].key : i \in DOMAIN contribs}
            /\ \A i, j \in DOMAIN modules.value :
                i < j =>
                    /\ FirstAt(contribs, modules.value[i].key)
                          < FirstAt(contribs, modules.value[j].key)
                    /\ (from(i).aux /\ ~from(j).aux) =>
                          ~contribs[FirstAt(contribs, modules.value[i].key)].aux

\* an auxiliary module took the place of a source directory's module of the
\* same name and precedes a module of a later source directory
C13_Witness ==
    /\ ModulesReturned
    /\ LET contribs == Contributions
           from(i) == LastFor(contribs, modules.value[i].key)
       IN  /\ contribs # <<>>
           /\ \E i, j \in DOMAIN modules.value :
                /\ i < j
                /\ from(i).aux /\ ~from(j).aux
                /\ SourceIndex(from(j).from) > 1

(***************************************************************************)
(* Claims about core files and source directories                          *)
(***************************************************************************)

\* no value occurs twice in the sequence
NoDuplicates(seq) == \A i, j \in DOMAIN seq : seq[i] = seq[j] => i = j

\* C14 as stated: the list returned by detect_core_files contains no path
\* twice, with auto-detection and also with a configured core_files list.
C14_CoreFilesWithoutDuplicates ==
    HasReturned(core_files) => NoDuplicates(core_files.value)

\* C14 amended: the auto-detected list contains no path twice; a configured
\* core_files list is returned as it is, with the duplicates it has.
C14_AutoDetectedCoreFilesWithoutDuplicates ==
    HasReturned(core_files) =>
        IF config.core_files # <<>>
        THEN core_files.value = config.core_files
        ELSE NoDuplicates(core_files.value)

\* auto-detection met the same source directory twice and lists its
\* __init__.py once
C14_Witness ==
    /\ HasReturned(source_dirs) /\ HasReturned(core_files)
    /\ config.core_files = <<>>
    /\ \E i, j \in DOMAIN source_dirs.value :
          /\ i # j
          /\ source_dirs.value[i] = source_dirs.value[j]
          /\ RelStr(Child(source_dirs.value[i], InitPy)) \in Range(core_files.value)

(***************************************************************************)
(* Claims about the file listing and the ModuleMap                         *)
(***************************************************************************)

\* C17: listing and discovery apply the same exclusion predicate: every file
\* in the ModuleMap of discover_all_modules is also in the flat grouping of
\* discover_all_files called with the configured extensions as the filter.
C17_ModuleFilesAreListed ==
    (HasReturned(modules) /\ HasReturned(all_files)) =>
        \A filepath \in ModuleFiles : PathOf(filepath) \in ListedFiles

\* the sequence lists the directories of the set once each, by rising name
ListsByName(seq, dirs) ==
    /\ Range(seq) = dirs
    /\ \A i, j \in DOMAIN seq : i < j => StrLess(NameOf(seq[i]), NameOf(seq[j]))

\* the directory holds a file or directory __init__.py
HasInit(dir) == Child(dir, InitPy) \in fs.files \cup fs.dirs

\* C18: source-directory discovery: without an override, discover_source_dirs
\* returns the immediate subdirectories of root/src that contain __init__.py,
\* sorted by name, then the immediate non-excluded subdirectories of the root
\* that contain __init__.py, sorted by name, no directory twice; with a
\* source_dirs override it returns the configured entries that are existing
\* directories, in configured order.
C18_SourceDirectoryDiscovery ==
    HasReturned(source_dirs) =>
        IF config.source_dirs = <<>>
        THEN LET under_src == {d \in fs.dirs : Len(d) = 2 /\ d[1] = <<"s", "r", "c">> /\ HasInit(d)}
                 under_root == {d \in fs.dirs :
                                   /\ Len(d) = 1 /\ HasInit(d)
                                   /\ d[1] \notin Range(config.ignore_dirs)
                                   /\ \A k \in DOMAIN config.ignore_patterns :
                                         ~fnmatch(d[1], config.ignore_patterns[k])
                                   /\ d[1][1] # "."}
                 n == Cardinality(under_src)
             IN  /\ Len(source_dirs.value) = n + Cardinality(under_root)
                 /\ ListsByName(SubSeq(source_dirs.value, 1, n), under_src)
                 /\ ListsByName(SubSeq(source_dirs.value, n + 1, Len(source_dirs.value)),
                                under_root)
                 /\ NoDuplicates(source_dirs.value)
        ELSE LET kept == {i \in DOMAIN config.source_dirs :
                             PathOf(config.source_dirs[i]) \in fs.dirs \cup {Root}}
             IN  /\ Len(source_dirs.value) = Cardinality(kept)
                 /\ \A i \in kept :
                       source_dirs.value[Cardinality({j \in kept : j <= i})]
                          = PathOf(config.source_dirs[i])

\* auto-discovery found two packages under src and one at the root, next to
\* an excluded one
C18_Witness ==
    /\ HasReturned(source_dirs)
    /\ config.source_dirs = <<>>
    /\ Len(source_dirs.value) = 3
    /\ Len(source_dirs.value[1]) = 2 /\ Len(source_dirs.value[2]) = 2
    /\ Len(source_dirs.value[3]) = 1

(***************************************************************************)
(* Claims about auxiliary directories and the fallback module              *)
(***************************************************************************)

\* the root-level directory is neither a source directory nor inside one
Unclaimed(d) ==
    /\ d \in fs.dirs /\ Len(d) = 1
    /\ d \notin Range(source_dirs.value)
    /\ Root \notin Range(source_dirs.value)

\* the ModuleMap holds, under the directory's name, files of the directory
ContributesModule(d) ==
    \E i \in DOMAIN modules.value :
        /\ modules.value[i].key = d[1]
        /\ \E filepath \in Range(modules.value[i].value) :
              LET path == PathOf(filepath) IN Len(path) > 1 /\ path[1] = d[1]

Excluded(name) ==
    \/ name \in Range(config.ignore_dirs)
    \/ \E k \in DOMAIN config.ignore_patterns : fnmatch(name, config.ignore_patterns[k])
    \/ name[1] = "."

\* C19 as stated: a root-level directory that is neither a source directory
\* nor inside one contributes a module only if its name is one of tests,
\* scripts, examples, benchmarks, notebooks, and it is not excluded.
C19_AuxiliaryModulesFromFiveNames ==
    ModulesReturned =>
        \A d \in fs.dirs :
            (Unclaimed(d) /\ ContributesModule(d)) =>
                /\ d[1] \in {<<"t", "e", "s", "t", "s">>, <<"s", "c", "r", "i", "p", "t", "s">>, <<"e", "x", "a", "m", "p", "l", "e", "s">>, <<"b", "e", "n", "c", "h", "m", "a", "r", "k", "s">>, <<"n", "o", "t", "e", "b", "o", "o", "k", "s">>}
                /\ ~Excluded(d[1])

\* C19 amended: the fixed list has six names: tests, test, scripts, examples,
\* benchmarks, notebooks.
C19_AuxiliaryModulesFromSixNames ==
    ModulesReturned =>
        \A d \in fs.dirs :
            (Unclaimed(d) /\ ContributesModule(d)) =>
                /\ d[1] \in {<<"t", "e", "s", "t", "s">>, <<"t", "e", "s", "t">>, <<"s", "c", "r", "i", "p", "t", "s">>, <<"e", "x", "a", "m", "p", "l", "e", "s">>, <<"b", "e", "n", "c", "h", "m", "a", "r", "k", "s">>, <<"n", "o", "t", "e", "b", "o", "o", "k", "s">>}
                /\ ~Excluded(d[1])

\* the directory test contributes a module, the directory docs next to it
\* holds a matching file and contributes none
C19_Witness ==
    /\ ModulesReturned
    /\ Unclaimed(<<<<"t", "e", "s", "t">>>>) /\ ContributesModule(<<<<"t", "e", "s", "t">>>>)
    /\ Unclaimed(<<<<"d", "o", "c", "s">>>>) /\ ~ContributesModule(<<<<"d", "o", "c", "s">>>>)
    /\ <<<<"d", "o", "c", "s">>, <<"d", ".", "p", "y">>>> \in fs.files

\* the files directly under the root that match the extensions and are not
\* excluded, as relative paths
RootLevelFiles ==
    {RelStr(f) : f \in {f \in fs.files :
        Len(f) = 1 /\ suffix(f) \in Range(config.extensions) /\ ~Excluded(f[1])}}

\* the sequence lists the strings of the set once each, in rising order
ListsSorted(seq, strings) ==
    /\ Range(seq) = strings
    /\ \A i, j \in DOMAIN seq : i < j => StrLess(seq[i], seq[j])

\* the ModuleMap is empty or holds the module 'root' alone, with the
\* root-level files
OnlyRootModule ==
    IF RootLevelFiles = {} THEN modules.value = <<>>
    ELSE /\ Len(modules.value) = 1
         /\ modules.value[1].key = <<"r", "o", "o", "t">>
         /\ ListsSorted(modules.value[1].value, RootLevelFiles)

\* C20 as stated: the root-level files are collected into the module 'root'
\* only if the source-directory and auxiliary-directory steps produced no
\* module; then the ModuleMap is empty or has 'root' as its only key, holding
\* the matching non-excluded files directly under the root in sorted order;
\* whenever another module was produced no root-level file is in any module.
C20_FallbackExclusivity ==
    ModulesReturned =>
        IF Contributions = <<>>
        THEN OnlyRootModule
        ELSE \A filepath \in ModuleFiles : Len(PathOf(filepath)) > 1

\* C20 amended: whenever another module was produced, a root-level file is in
\* a module only if the root itself is a source directory (source_dirs holds
\* "."), and then in the module named after the root directory.
C20_FallbackExclusivityUnlessRootIsSource ==
    ModulesReturned =>
        IF Contributions = <<>>
        THEN OnlyRootModule
        ELSE \A i \in DOMAIN modules.value :
                \A filepath \in Range(modules.value[i].value) :
                    Len(PathOf(filepath)) = 1 =>
                        /\ Root \in Range(source_dirs.value)
                        /\ modules.value[i].key = RootName

\* the fallback collected two root-level files into 'root'
C20_Witness ==
    /\ ModulesReturned
    /\ Contributions = <<>>
    /\ Len(modules.value) = 1
    /\ modules.value[1].key = <<"r", "o", "o", "t">>
    /\ Len(modules.value[1].value) = 2

(***************************************************************************)
(* Claims about get_git_changed_files                                      *)
(***************************************************************************)

\* the paths with a configured extension among those git reports where its
\* calls succeed: the modified ones with a repository, the untracked ones too
Obtainable ==
    {f \in (IF git.state \in {"no commit", "repository"}
            THEN git.modified \cup git.untracked ELSE {}) :
        \E e \in Range(config.extensions) : endswith(f, e)}

\* C16: a version-control query failure never propagates: whichever git
\* invocation fails (no git executable, no repository, no HEAD commit,
\* non-zero exit), get_git_changed_files raises nothing and returns the
\* changed files of the calls that succeeded, the empty list when all fail.
C16_GitFailureNeverPropagates ==
    Called(changed) =>
        /\ HasReturned(changed)
        /\ Range(changed.value) = Obtainable
        /\ NoDuplicates(changed.value)

(***************************************************************************)
(* Claims about main                                                       *)
(***************************************************************************)

\* the run of main has ended
Terminal == pc \in {"returned", "exit 1", "done"}

ModuleNames == {modules.value[i].key : i \in DOMAIN modules.value}

\* a name given to --module is not a key of the ModuleMap
SomeRequestAbsent ==
    /\ HasReturned(modules)
    /\ \E i \in DOMAIN args.module : args.module[i] \notin ModuleNames

\* stderr names a requested name that is absent, then the valid names in
\* rising order
ReportsMissingModule ==
    \E k \in DOMAIN emitted :
        /\ emitted[k].to = "stderr" /\ emitted[k].what = "Error: Module not found."
        /\ \E i \in DOMAIN args.module :
              args.module[i] \notin ModuleNames /\ emitted[k].data = <<args.module[i]>>
        /\ k < Len(emitted)
        /\ emitted[k + 1].to = "stderr" /\ emitted[k + 1].what = "Available"
        /\ ListsSorted(emitted[k + 1].data, ModuleNames)

\* no export on stdout or in the output file
NoExport == \A k \in DOMAIN emitted : emitted[k].what # "export"

RECURSIVE CdataSections(_)
CdataSections(text) ==
    LET body == SubSeq(text, Len(<<"<", "!", "[", "C", "D", "A", "T", "A", "[">>) + 1, Len(text))
        closes == {i \in 1..(Len(body) - 2) : SubSeq(body, i, i + 2) = <<"]", "]", ">">>}
        rest == CdataSections(SubSeq(body, Min(closes) + 3, Len(body)))
    IN  IF text = <<>> THEN [well_formed |-> TRUE, payloads |-> <<>>]
        ELSE IF ~startswith(text, <<"<", "!", "[", "C", "D", "A", "T", "A", "[">>) \/ closes = {}
        THEN [well_formed |-> FALSE, payloads |-> <<>>]
        ELSE [well_formed |-> rest.well_formed,
              payloads |-> <<SubSeq(body, 1, Min(closes) - 1)>> \o rest.payloads]

\* C24: cdata_wrap round-trips: what it returns reads as one or more CDATA
\* sections, each closed by the first "]]>" after its opening, and the
\* payloads of the sections put end to end are the content, whatever the
\* content holds
C24_CdataWrapRoundTrips ==
    HasReturned(wrapped) =>
        LET sections == CdataSections(wrapped.value)
        IN  /\ sections.well_formed
            /\ sections.payloads # <<>>
            /\ Join(sections.payloads, <<>>) = content

\* a content with the closing marker twice and "]]" at its end was wrapped
\* into three sections
C24_Witness ==
    /\ HasReturned(wrapped)
    /\ Len(split_sep(content, <<"]", "]", ">">>)) = 3
    /\ endswith(content, <<"]", "]">>)
    /\ Len(CdataSections(wrapped.value).payloads) = 3

\* get_directory_tree has returned
TreeReturned == pc = "done" /\ HasReturned(tree)

\* the lines of the tree returned
TreeLines == IF tree.value = <<>> THEN <<>> ELSE Pieces(tree.value, {"\n"})

\* how many levels below the root the entry of a line is: the connector
\* stands after one indentation of four characters per level above it
LevelOf(line) ==
    Min({k \in 1..(Len(line) \div 4) :
            /\ SubSeq(line, 4 * k - 3, 4 * k) \in {Connector(TRUE), Connector(FALSE)}
            /\ \A j \in 1..(k - 1) :
                 SubSeq(line, 4 * j - 3, 4 * j) \in {Extension(TRUE), Extension(FALSE)}})

\* the name a line shows
ShownName(line) == SubSeq(line, 4 * LevelOf(line) + 1, Len(line))

\* the path of the entry of the i-th line: the names of the nearest lines
\* above it of each lower level, then its own
RECURSIVE ShownPath(_, _)
ShownPath(lines, i) ==
    IF LevelOf(lines[i]) = 1 THEN <<ShownName(lines[i])>>
    ELSE Append(ShownPath(lines, Max({j \in 1..(i - 1) :
                                        LevelOf(lines[j]) = LevelOf(lines[i]) - 1})),
                ShownName(lines[i]))

\* no line shows an entry more than tree_depth levels below the root
DepthBounded == \A i \in DOMAIN TreeLines : LevelOf(TreeLines[i]) <= config.tree_depth

\* every line shows an entry of the tree, and no entry twice
ShowsEntries ==
    LET lines == TreeLines
    IN  /\ \A i \in DOMAIN lines : ShownPath(lines, i) \in fs.files \cup fs.dirs
        /\ \A i, j \in DOMAIN lines : ShownPath(lines, i) = ShownPath(lines, j) => i = j

\* of two entries of one directory, the one shown first is a directory when
\* the other is one, and has the lower name when both are of one kind
DirectoriesFirstByName ==
    LET lines == TreeLines
    IN  \A i, j \in DOMAIN lines :
          LET a == ShownPath(lines, i)
              b == ShownPath(lines, j)
          IN  (i < j /\ Parent(a) = Parent(b)) =>
                 /\ is_dir(fs, b) => is_dir(fs, a)
                 /\ (is_dir(fs, a) = is_dir(fs, b)) => StrLess(NameOf(a), NameOf(b))

\* no line shows an excluded name
NoExcludedName ==
    \A i \in DOMAIN TreeLines : ~should_ignore(ShownName(TreeLines[i]), config)

\* C21: the visual tree is depth-bounded: with max_depth 0 the result is the
\* empty string; for every configured max_depth no entry more than max_depth
\* levels below the root is shown; within a directory the directories come
\* first, then the files, each group in name order; excluded names are never
\* shown
C21_DepthBoundedTree ==
    TreeReturned =>
        /\ config.tree_depth = 0 => tree.value = <<>>
        /\ DepthBounded
        /\ ShowsEntries
        /\ DirectoriesFirstByName
        /\ NoExcludedName

(***************************************************************************)
(* The order of the findings of a batch.                                   *)
(***************************************************************************)

\* the findings of the i-th listed file: those of its name, then those of
\* its content if the scan could read it
FileFindings(i) ==
    scan_filename_for_secrets(files[i]) \o
    (IF disk[files[i]].kind = "text"
     THEN scan_content_for_secrets(disk[files[i]].content, files[i])
     ELSE <<>>)

\* how many findings the files listed before the i-th have; found[j] is the
\* findings of the j-th listed file, the list of them being built once
RECURSIVE BlockStart(_, _)
BlockStart(found, i) == IF i = 1 THEN 0 ELSE BlockStart(found, i - 1) + Len(found[i - 1])

\* the part of the returned list that falls to the i-th listed file
Block(found, i) ==
    SubSeq(filesResult.value, BlockStart(found, i) + 1, BlockStart(found, i + 1))

\* where a pattern name stands in a pattern table, 0 if it is not in it
PatternIndex(table, pattern_name) ==
    IF \E k \in DOMAIN table : table[k].name = pattern_name
    THEN Min({k \in DOMAIN table : table[k].name = pattern_name})
    ELSE 0

\* the order inside the findings of one file: line numbers never decrease,
\* so the filename findings (line 0) come first; filename findings stand in
\* SENSITIVE_FILE_PATTERNS order, findings of one line in SECRET_PATTERNS order
InFileOrder(block) ==
    \A k \in 1..(Len(block) - 1) :
        /\ block[k].line_number <= block[k + 1].line_number
        /\ (block[k].line_number = 0 /\ block[k + 1].line_number = 0) =>
              /\ PatternIndex(SENSITIVE_FILE_PATTERNS, block[k].pattern_name) > 0
              /\ PatternIndex(SENSITIVE_FILE_PATTERNS, block[k].pattern_name)
                    < PatternIndex(SENSITIVE_FILE_PATTERNS, block[k + 1].pattern_name)
        /\ (block[k].line_number > 0 /\ block[k].line_number = block[k + 1].line_number) =>
              /\ PatternIndex(SECRET_PATTERNS, block[k].pattern_name) > 0
              /\ PatternIndex(SECRET_PATTERNS, block[k].pattern_name)
                    < PatternIndex(SECRET_PATTERNS, block[k + 1].pattern_name)

\* C23: finding order: the list scan_files_for_secrets returns is the
\* findings of each listed file put end to end in the order of the file list;
\* the findings of one file are its filename findings (line 0, in
\* SENSITIVE_FILE_PATTERNS order), then its content findings with line numbers
\* that never decrease and, on one line, in SECRET_PATTERNS order; the
\* findings of two listed files never interleave
C23_FindingOrder ==
    (FilesDone /\ HasReturned(filesResult)) =>
        LET found == <<>> \o [i \in DOMAIN files |-> FileFindings(i)]
        IN  /\ BlockStart(found, Len(files) + 1) = Len(filesResult.value)
            /\ \A i \in DOMAIN files :
                 /\ Block(found, i) = found[i]
                 /\ \A k \in DOMAIN Block(found, i) : Block(found, i)[k].filepath = files[i]
                 /\ InFileOrder(Block(found, i))
            /\ \A i, j \in DOMAIN files :
                 i < j => BlockStart(found, i + 1) <= BlockStart(found, j)

\* a batch of two different files was scanned: the first has a filename
\* finding, content findings on two lines and two findings on one line, the
\* second has two filename findings
C23_Witness ==
    /\ FilesDone /\ HasReturned(filesResult)
    /\ Len(files) = 2 /\ files[1] # files[2]
    /\ LET found == <<>> \o [i \in DOMAIN files |-> FileFindings(i)]
           first == Block(found, 1)
           second == Block(found, 2)
       IN  /\ \E a, b, c, d \in DOMAIN first :
                /\ a < b /\ b < c /\ c < d
                /\ first[a].line_number = 0
                /\ first[b].line_number > 0
                /\ first[b].line_number < first[c].line_number
                /\ first[c].line_number = first[d].line_number
           /\ \E a, b \in DOMAIN second :
                a < b /\ second[a].line_number = 0 /\ second[b].line_number = 0

(***************************************************************************)
(* The export and the review of the secrets found.                         *)
(***************************************************************************)

\* scanning is enabled and scan_files_for_secrets returned findings
SecretsFound == ~args.no_scan /\ HasReturned(findings) /\ findings.value # <<>>

\* where the run wrote the findings to stderr
WarnedAt ==
    {k \in DOMAIN emitted :
        /\ emitted[k].to = "stderr" /\ emitted[k].what = "POTENTIAL SECRETS DETECTED"
        /\ emitted[k].data = [i \in DOMAIN findings.value |-> findings.value[i].filepath]}

\* where the run emitted the export, and where it wrote the output file
ExportedAt == {k \in DOMAIN emitted : emitted[k].what = "export"}
FileWrittenAt == {k \in DOMAIN emitted : emitted[k].to = "file"}

\* where the user answered the confirmation prompt
ConfirmedAt ==
    {k \in DOMAIN emitted :
        /\ k > 1
        /\ emitted[k - 1].what = "Secrets detected. Continue with export? [y/N]"
        /\ emitted[k].to = "stdin" /\ emitted[k].what = "answer"}

\* "y" or "yes", in any case of the letters
YesAnswers ==
    {<<a>> : a \in {"y", "Y"}} \cup
    {<<a, b, c>> : a \in {"y", "Y"}, b \in {"e", "E"}, c \in {"s", "S"}}

\* C22: the export is gated on the review of the secrets: when scanning is
\* enabled and scan_files_for_secrets returns findings, the findings are on
\* stderr before any export is emitted; when an output file was asked for,
\* the file is written only after the user answered "y" or "yes" (in any
\* case) to the confirmation prompt, and after any other answer the run ends
\* with exit status 1 and the file is never written
C22_ExportGatedOnSecretReview ==
    SecretsFound =>
        /\ WarnedAt # {}
        /\ \A e \in ExportedAt : \E w \in WarnedAt : w < e
        /\ args.output # <<>> =>
              /\ \A e \in FileWrittenAt :
                    \E c \in ConfirmedAt : c < e /\ emitted[c].data[1] \in YesAnswers
              /\ \A c \in ConfirmedAt :
                    emitted[c].data[1] \notin YesAnswers =>
                        pc = "exit 1" /\ FileWrittenAt = {}

\* secrets were found in a run with an output file, the user answered "YES"
\* and the file was written after the warnings
C22_Witness ==
    /\ SecretsFound
    /\ args.output # <<>>
    /\ pc = "returned"
    /\ \E w \in WarnedAt, c \in ConfirmedAt, e \in FileWrittenAt :
          w < c /\ c < e /\ emitted[c].data = <<<<"Y", "E", "S">>>>


=============================================================================
